---- MODULE Spec2Model ----
(***************************************************************************)
(* A model of the AdventureMachine engine (src/unnamed/part_000): the      *)
(* command dispatch of Game.parseCommand, the two command styles, the      *)
(* navigation of Game.goTo, the inventories and the cooperative scheduler  *)
(* Game.centralTimer.                                                      *)
(*                                                                         *)
(* Text is modelled character by character: a JavaScript string is a       *)
(* sequence of one-character strings, so that startsWith, toUpperCase,     *)
(* trim and the two regular expressions are computed, not assumed.         *)
(***************************************************************************)
EXTENDS Integers, Sequences, FiniteSets, TLC

(***************************************************************************)
(* Strings                                                                 *)
(***************************************************************************)

\* The value of a variable or argument that was never assigned (undefined).
\* It is a one-element sequence holding a word no text contains, so that it
\* can be compared with any text.
Undefined == <<"<undefined>">>

LowerChars == <<"a","b","c","d","e","f","g","h","i","j","k","l","m",
                "n","o","p","q","r","s","t","u","v","w","x","y","z">>
UpperChars == <<"A","B","C","D","E","F","G","H","I","J","K","L","M",
                "N","O","P","Q","R","S","T","U","V","W","X","Y","Z">>

\* The upper-case form of each lower-case letter.
UpperTable ==
    [c \in {LowerChars[i] : i \in 1..Len(LowerChars)} |->
        UpperChars[CHOOSE i \in 1..Len(LowerChars) : LowerChars[i] = c]]

\* String.prototype.toUpperCase, one character.
UpperChar(c) == IF c \in DOMAIN UpperTable THEN UpperTable[c] ELSE c

\* String.prototype.toUpperCase.
ToUpperCase(s) == [i \in 1..Len(s) |-> UpperChar(s[i])]

\* String.prototype.startsWith (and its polyfill, slice(0, n) === str).
StartsWith(s, p) == Len(p) <= Len(s) /\ SubSeq(s, 1, Len(p)) = p

\* The number of consecutive spaces of s from position p on.
RECURSIVE SpaceRun(_, _)
SpaceRun(s, p) ==
    IF p >= 1 /\ p <= Len(s) /\ s[p] = " " THEN 1 + SpaceRun(s, p + 1) ELSE 0

\* The number of consecutive spaces of s from position p backwards.
RECURSIVE SpaceRunBack(_, _)
SpaceRunBack(s, p) ==
    IF p >= 1 /\ p <= Len(s) /\ s[p] = " " THEN 1 + SpaceRunBack(s, p - 1) ELSE 0

\* String.prototype.trim (the only whitespace of a console line is the space).
Trim(s) ==
    LET lead == SpaceRun(s, 1)
    IN  IF lead = Len(s) THEN <<>>
        ELSE SubSeq(s, lead + 1, Len(s) - SpaceRunBack(s, Len(s)))

\* A search that finds t at the start of s only.
ContainsAtStart(s, t) == Len(t) <= Len(s) /\ SubSeq(s, 1, Len(t)) = t

\* String.prototype.indexOf(t) >= 0: t occurs in s as a substring.
Contains(s, t) ==
    \E i \in 1..(Len(s) + 1) :
        i + Len(t) - 1 <= Len(s) /\ SubSeq(s, i, i + Len(t) - 1) = t

(***************************************************************************)
(* Console.parse: the tokenizer                                            *)
(***************************************************************************)

\* The loop of Console.parse from character i on: args are the tokens pushed
\* so far, part the token being read, readingPart the quoted-span flag.
RECURSIVE ParseFrom(_, _, _, _, _)
ParseFrom(commandText, i, args, part, readingPart) ==
    IF i > Len(commandText)
    THEN IF Len(part) > 0 THEN Append(args, part) ELSE args
    ELSE IF commandText[i] = " " /\ ~readingPart
         THEN ParseFrom(commandText, i + 1, Append(args, part), <<>>, readingPart)
         ELSE IF commandText[i] = "\""
              THEN ParseFrom(commandText, i + 1, args, part, ~readingPart)
              ELSE ParseFrom(commandText, i + 1, args,
                             Append(part, commandText[i]), readingPart)

\* A tokenizer that starts inside a quoted span.
ParseQuoted(commandText) == ParseFrom(commandText, 1, <<>>, <<>>, TRUE)

\* Console.prototype.parse.
Parse(commandText) == ParseFrom(commandText, 1, <<>>, <<>>, FALSE)

(***************************************************************************)
(* RegexCallbackCommand: the two patterns                                  *)
(***************************************************************************)

\* The case-insensitive literal lit matches text at position p.
LiteralAt(text, p, lit) ==
    /\ p >= 1
    /\ p + Len(lit) - 1 <= Len(text)
    /\ ToUpperCase(SubSeq(text, p, p + Len(lit) - 1)) = ToUpperCase(lit)

\* A short pattern whose run of spaces may be empty: '^' + name + '[ ]*(.*)'.
ShortformExecStar(name, text) ==
    LET n   == Len(name)
        run == SpaceRun(text, n + 1)
    IN  IF LiteralAt(text, 1, name)
        THEN [matched |-> TRUE, g1 |-> SubSeq(text, n + run + 1, Len(text))]
        ELSE [matched |-> FALSE, g1 |-> Undefined]

\* shortformRegex.exec(text) for '^' + name + '[ ]+(.*)' with flag i: the
\* greedy [ ]+ takes the whole run of spaces, (.*) the rest of the line.
ShortformExec(name, text) ==
    LET n   == Len(name)
        run == SpaceRun(text, n + 1)
    IN  IF LiteralAt(text, 1, name) /\ run >= 1
        THEN [matched |-> TRUE, g1 |-> SubSeq(text, n + run + 1, Len(text))]
        ELSE [matched |-> FALSE, g1 |-> Undefined]

\* The ways '^' + name + '[ ]+(.*)[ ]+' + prep + '[ ]+(.*)' matches text:
\* <<k, e>> where the first [ ]+ takes k spaces and group 1 ends at e.
LongformCands(name, prep, text) ==
    LET n == Len(name)
        m == Len(prep)
    IN  IF ~LiteralAt(text, 1, name) THEN {}
        ELSE { c \in (1..SpaceRun(text, n + 1)) \X (n..Len(text)) :
                 /\ c[2] >= n + c[1]
                 /\ \E j \in 1..SpaceRun(text, c[2] + 1) :
                       /\ LiteralAt(text, c[2] + j + 1, prep)
                       /\ SpaceRun(text, c[2] + j + m + 1) >= 1 }

\* A matcher whose group 1 is lazy: it ends at the first preposition.
LongformExecLazy(name, prep, text) ==
    LET n     == Len(name)
        m     == Len(prep)
        cands == LongformCands(name, prep, text)
    IN  IF cands = {}
        THEN [matched |-> FALSE, g1 |-> Undefined, g2 |-> Undefined]
        ELSE LET c == CHOOSE c \in cands : \A d \in cands :
                          d[1] < c[1] \/ (d[1] = c[1] /\ d[2] >= c[2])
                 j == CHOOSE j \in 1..SpaceRun(text, c[2] + 1) :
                          LiteralAt(text, c[2] + j + 1, prep)
                 q == c[2] + j + m + 1
             IN  [matched |-> TRUE,
                  g1 |-> SubSeq(text, n + c[1] + 1, c[2]),
                  g2 |-> SubSeq(text, q + SpaceRun(text, q), Len(text))]

\* longformRegex.exec(text): the backtracking matcher prefers the longest
\* first run of spaces, then the longest group 1; the last [ ]+ is greedy.
LongformExec(name, prep, text) ==
    LET n     == Len(name)
        m     == Len(prep)
        cands == LongformCands(name, prep, text)
    IN  IF cands = {}
        THEN [matched |-> FALSE, g1 |-> Undefined, g2 |-> Undefined]
        ELSE LET c == CHOOSE c \in cands : \A d \in cands :
                          d[1] < c[1] \/ (d[1] = c[1] /\ d[2] <= c[2])
                 j == CHOOSE j \in 1..SpaceRun(text, c[2] + 1) :
                          LiteralAt(text, c[2] + j + 1, prep)
                 q == c[2] + j + m + 1
             IN  [matched |-> TRUE,
                  g1 |-> SubSeq(text, n + c[1] + 1, c[2]),
                  g2 |-> SubSeq(text, q + SpaceRun(text, q), Len(text))]

\* An execute that tries the short form before the long form.
TargetsShortFirst(name, prep, text) ==
    LET short == ShortformExec(name, text)
    IN  IF short.matched
        THEN [target1 |-> short.g1, target2 |-> Undefined]
        ELSE [target1 |-> LongformExec(name, prep, text).g1,
              target2 |-> LongformExec(name, prep, text).g2]

\* The targets RegexCallbackCommand.execute extracts from a line that starts
\* with the command's name: the long form first (when a preposition was
\* configured), then the short form.
Targets(name, prep, text) ==
    LET long == IF prep # Undefined THEN LongformExec(name, prep, text)
                ELSE [matched |-> FALSE, g1 |-> Undefined, g2 |-> Undefined]
    IN  IF long.matched
        THEN [target1 |-> long.g1, target2 |-> long.g2]
        ELSE [target1 |-> ShortformExec(name, text).g1, target2 |-> Undefined]

(***************************************************************************)
(* The story: the entities the engine is given                             *)
(***************************************************************************)

\* Location ids. LocC carries no exit and is reached only by Game.goTo.
LocA == <<"a">>
LocB == <<"b">>
LocC == <<"c">>
LocIds == {LocA, LocB, LocC}

\* An id no location, item or NPC carries.
NoSuchId == <<"z">>

\* A name every JavaScript object inherits from Object.prototype: the engine
\* keeps its maps in plain objects ({}), so map[ValueOfKey] is the inherited
\* function, which is truthy and is neither a Location nor a BaseEntity.
ValueOfKey == <<"v","a","l","u","e","O","f">>
ProtoKeys == {ValueOfKey}

\* What a map lookup returns for an inherited name.
ProtoMember == <<"<Object.prototype member>">>

\* new Exit(exitName, destinationLocationId): Location.exits, in order.
Exits(loc) ==
    IF loc = LocA THEN << [exitName |-> <<"S","o","u","t","h">>, destinationLocationId |-> LocB] >>
    ELSE IF loc = LocB THEN << [exitName |-> <<"N","o","r","t","h">>, destinationLocationId |-> LocA] >>
    ELSE << >>

\* Location.onTickCallback: LocB and LocC declare one, LocA declares none.
TickB == "tickB"
TickC == "tickC"
OnTickCallback(loc) ==
    IF loc = LocB THEN TickB ELSE IF loc = LocC THEN TickC ELSE "none"

\* Items: Key is a collectable Item without a use-callback, Lamp a collectable
\* Item with one, Box a Fixture.
ItemKey  == <<"k","e","y">>
ItemLamp == <<"l","a","m","p">>
ItemBox  == <<"b","o","x">>
ItemIds == {ItemKey, ItemLamp, ItemBox}
NpcBob == <<"b","o","b">>
NpcIds == {NpcBob}
\* Two more items a story may create: Copy is titled like the Key but in
\* capitals, Spare like the Key with a space on either side.
ItemCopy == <<"c","o","p","y">>
ItemSpare == <<"s","p","a","r","e">>
StoryEntities == ItemIds \cup NpcIds
EntityIds == StoryEntities \cup {ItemCopy, ItemSpare}

\* BaseEntity.title.
Title(id) ==
    IF id = ItemKey THEN <<"K","e","y">>
    ELSE IF id = ItemLamp THEN <<"L","a","m","p">>
    ELSE IF id = ItemBox THEN <<"B","o","x">>
    ELSE IF id = ItemCopy THEN <<"K","E","Y">>
    ELSE IF id = ItemSpare THEN <<" ","K","e","y"," ">>
    ELSE <<"B","o","b">>

\* A story whose Fixture is collectable too.
EveryCollectable(id) == id \in ItemIds

\* Item.collectable: false for a Fixture.
Collectable(id) == id \in {ItemKey, ItemLamp}

\* Item.onUseCallback is defined.
HasUseCallback(id) == id = ItemLamp

\* Location.itemCodes and Location.npcCodes of the story's locations.
ItemCodes(loc) ==
    IF loc = LocA THEN <<ItemKey, ItemBox>> ELSE << >>
NpcCodes(loc) ==
    IF loc = LocA THEN <<NpcBob>> ELSE << >>

(***************************************************************************)
(* Inventory: a plain object used as a map, keys in insertion order        *)
(***************************************************************************)

\* An inventory is the sequence of its slots [id, present]: removeItem leaves
\* the key with the value undefined (present = FALSE).
EmptyInventory == << >>

HasKey(inv, id) == \E i \in 1..Len(inv) : inv[i].id = id

\* Inventory.prototype.getItem: this.items[itemId].
GetItem(inv, id) ==
    IF \E i \in 1..Len(inv) : inv[i].id = id /\ inv[i].present THEN id
    ELSE IF HasKey(inv, id) THEN Undefined
    ELSE IF id \in ProtoKeys THEN ProtoMember
    ELSE Undefined

\* An addItem that leaves an existing key as it is.
AddItemOnce(inv, item) ==
    IF item \notin EntityIds \/ HasKey(inv, item) THEN inv
    ELSE Append(inv, [id |-> item, present |-> TRUE])

\* Inventory.prototype.addItem: only a BaseEntity is stored; an existing key
\* keeps its place.
AddItem(inv, item) ==
    IF item \notin EntityIds THEN inv
    ELSE IF HasKey(inv, item)
         THEN [i \in 1..Len(inv) |->
                  IF inv[i].id = item THEN [id |-> item, present |-> TRUE] ELSE inv[i]]
         ELSE Append(inv, [id |-> item, present |-> TRUE])

\* Inventory.prototype.addItems.
RECURSIVE AddItems(_, _)
AddItems(inv, itemsArray) ==
    IF itemsArray = << >> THEN inv
    ELSE AddItems(AddItem(inv, Head(itemsArray)), Tail(itemsArray))

\* Inventory.prototype.removeItem: this.items[itemId] = undefined.
RemoveItem(inv, id) ==
    IF HasKey(inv, id)
    THEN [i \in 1..Len(inv) |->
             IF inv[i].id = id THEN [id |-> id, present |-> FALSE] ELSE inv[i]]
    ELSE Append(inv, [id |-> id, present |-> FALSE])

\* A takeItem that leaves the item where it is.
TakeItemKeeps(inv, id) == inv

\* Inventory.prototype.takeItem: what it leaves of the inventory (it returns
\* getItem(itemId), which its one caller ignores).
TakeItem(inv, id) == RemoveItem(inv, id)

\* An iteration that takes the slots of removed entities too.
EverySlot(inv) == inv

\* The present entities of an inventory, in iteration order.
Present(inv) == SelectSeq(inv, LAMBDA s : s.present)

\* Inventory.prototype.findItemByName: [thrown, item]. itemName.trim() is
\* evaluated only for a present slot, and throws when itemName is undefined.
RECURSIVE FirstTitled(_, _)
FirstTitled(slots, name) ==
    IF slots = << >> THEN [thrown |-> FALSE, item |-> Undefined]
    ELSE IF ToUpperCase(Title(Head(slots).id)) = name
    THEN [thrown |-> FALSE, item |-> Head(slots).id]
    ELSE FirstTitled(Tail(slots), name)

FindItemByName(inv, itemName) ==
    IF Present(inv) = << >> THEN [thrown |-> FALSE, item |-> Undefined]
    ELSE IF itemName = Undefined THEN [thrown |-> TRUE, item |-> Undefined]
    ELSE FirstTitled(Present(inv), ToUpperCase(Trim(itemName)))

(***************************************************************************)
(* Command objects                                                         *)
(***************************************************************************)

\* A command list where enter reuses the go instance: the TODO above enter in
\* getCommands, taken literally.
BuiltinCmdsReused == <<"help", "go", "go", "examine", "take", "use", "drop", "inventory",
                       "look", "ask", "tell", "talk", "give", "supergo", "supertake">>

\* A Command object is [cmd, gen]: cmd names its constructor call, gen tells
\* apart the objects of two calls of Game.getCommands, which builds its
\* fifteen commands anew each time. The story's objects have gen 0.
BuiltinCmds == <<"help", "go", "enter", "examine", "take", "use", "drop", "inventory",
                 "look", "ask", "tell", "talk", "give", "supergo", "supertake">>

\* gameData.commands: the story supplies a second command named go.
StoryGo == [cmd |-> "storygo", gen |-> 0]
\* A command the story adds through Game.addCommand.
HintCmd == [cmd |-> "hint", gen |-> 0]

\* Command.shortName.
ShortName(c) ==
    IF c.cmd = "help" THEN <<"h","e","l","p">>
    ELSE IF c.cmd = "go" THEN <<"g","o">>
    ELSE IF c.cmd = "enter" THEN <<"e","n","t","e","r">>
    ELSE IF c.cmd = "examine" THEN <<"e","x","a","m","i","n","e">>
    ELSE IF c.cmd = "take" THEN <<"t","a","k","e">>
    ELSE IF c.cmd = "use" THEN <<"u","s","e">>
    ELSE IF c.cmd = "drop" THEN <<"d","r","o","p">>
    ELSE IF c.cmd = "inventory" THEN <<"i","n","v","e","n","t","o","r","y">>
    ELSE IF c.cmd = "look" THEN <<"l","o","o","k">>
    ELSE IF c.cmd = "ask" THEN <<"a","s","k">>
    ELSE IF c.cmd = "tell" THEN <<"t","e","l","l">>
    ELSE IF c.cmd = "talk" THEN <<"t","a","l","k"," ","t","o">>
    ELSE IF c.cmd = "give" THEN <<"g","i","v","e">>
    ELSE IF c.cmd = "supergo" THEN <<"s","u","p","e","r","g","o">>
    ELSE IF c.cmd = "supertake" THEN <<"s","u","p","e","r","t","a","k","e">>
    ELSE IF c.cmd = "storygo" THEN <<"g","o">>
    ELSE <<"h","i","n","t">>

\* The preposition a RegexCallbackCommand was built with (null: none).
Preposition(c) ==
    IF c.cmd = "use" THEN <<"o","n">>
    ELSE IF c.cmd \in {"ask", "tell", "talk"} THEN <<"a","b","o","u","t">>
    ELSE IF c.cmd = "give" THEN <<"t","o">>
    ELSE Undefined

\* CallbackCommand or RegexCallbackCommand.
IsCallbackCommand(c) == c.cmd \in {"help", "inventory", "look", "hint"}

\* Game.prototype.getCommands: fifteen new objects, in the returned order.
GetCommands(gen) == [i \in 1..Len(BuiltinCmds) |-> [cmd |-> BuiltinCmds[i], gen |-> gen]]

\* Location.prototype.getCommands.
LocationCommands(loc) == << >>

\* An allocation: a generation no live command object carries.
FreshGen(g) ==
    LET used == {g.availableCommands[i].gen : i \in 1..Len(g.availableCommands)}
                \cup g.held
    IN  CHOOSE n \in 1..(Cardinality(used) + 1) : n \notin used

(***************************************************************************)
(* Game: output, scheduler, navigation                                     *)
(***************************************************************************)

\* g is the Game (its fields and those of the objects it reaches) together
\* with the record of the operation in progress: out (what console.display
\* received), execs (the commands whose execute was called), calls (the
\* callbacks that acted), navs (the successful arrivals), reacts (the entity
\* reactions invoked), ticks (the scheduler callbacks invoked), did (what
\* each invoked callback did and returned, entry by entry of ticks), thrown (an
\* exception is propagating), held (the generations of the command objects
\* built earlier that are no longer in availableCommands: the list a running
\* parseCommand iterates, the list newGame cleared) and atGoTo (the
\* scheduler as the last successful goTo left it when it returned).

\* Game.prototype.print and its wrappers: console.display(message, kind). A
\* message is kept as its fixed wording (tag) and the texts put into it.
Display(g, kind, tag, args) ==
    IF g.thrown THEN g
    ELSE [g EXCEPT !.out = Append(@, [kind |-> kind, tag |-> tag, args |-> args])]

\* A failure that is swallowed.
Swallow(g) == g

\* A TypeError raised at this point.
Throw(g) == [g EXCEPT !.thrown = TRUE]

\* An add that puts the callback in front of the list.
TimerAddFront(g, fn) == [g EXCEPT !.timers = <<fn>> \o @]

\* centralTimer.add.
TimerAdd(g, fn) == [g EXCEPT !.timers = Append(@, fn)]

\* centralTimer.stop: clearTimeout(this.timerID); this.timerID = 0.
TimerStop(g) == [g EXCEPT !.pending = @ \ {g.timerID}, !.timerID = 0]

\* centralTimer.clear: this.stop(); this.timers = [].
TimerClear(g) == [TimerStop(g) EXCEPT !.timers = << >>]

\* setTimeout returns an id no pending timeout carries.
FreshTimeout(g) ==
    CHOOSE n \in 1..(Cardinality(g.pending) + 2) : n \notin g.pending /\ n # g.timerID

\* The inherited or own member this.locations[locationId].
LookupLocation(g, locationId) ==
    IF locationId \in g.locations THEN locationId
    ELSE IF locationId \in ProtoKeys THEN ProtoMember
    ELSE Undefined

\* The titles the loops of displayCurrentLocationInfo list for an inventory.
Listing(inv) == [i \in 1..Len(Present(inv)) |-> Present(inv)[i].id]

\* The parts of displayCurrentLocationInfo that depend on the location: the
\* exits, the items and the NPCs are listed when there are any.
DisplayExits(g, loc) ==
    IF Len(Exits(loc)) > 0
    THEN Display(g, "information", "Available exits", <<loc>>) ELSE g

DisplayItems(g, loc) ==
    IF Present(g.locItems[loc]) # << >>
    THEN Display(g, "information", "Items", Listing(g.locItems[loc])) ELSE g

DisplayNpcs(g, loc) ==
    IF Present(g.locNpcs[loc]) # << >>
    THEN Display(g, "information", "NPCs", Listing(g.locNpcs[loc])) ELSE g

\* Game.prototype.displayCurrentLocationInfo.
DisplayCurrentLocationInfo(g) ==
    IF g.thrown THEN g
    ELSE IF g.currentLocation \notin LocIds THEN Throw(g)
    ELSE DisplayNpcs(
             DisplayItems(
                 DisplayExits(
                     Display(Display(g, "section", "title", <<g.currentLocation>>),
                             "description", "description", <<g.currentLocation>>),
                     g.currentLocation),
                 g.currentLocation),
             g.currentLocation)

\* A counter that counts an arrival twice.
IncrementVisitsTwice(visits, loc) == [visits EXCEPT ![loc] = @ + 2]

\* Location.prototype.incrementVisits.
IncrementVisits(visits, loc) == [visits EXCEPT ![loc] = @ + 1]

\* A binding loop that stops one short of the end of the list.
BindCommandsButLast(g) ==
    [g EXCEPT !.bound = {c \in @ : c.gen = 0}
                        \cup {g.availableCommands[i] : i \in 1..(Len(g.availableCommands) - 1)}]

\* The loop of goTo that sets command.game = this on every list entry.
BindCommands(g) ==
    [g EXCEPT !.bound = {c \in @ : c.gen = 0}
                        \cup {g.availableCommands[i] : i \in 1..Len(g.availableCommands)}]

\* The successful branch of goTo up to the new command list: the location,
\* its visit counter, the list.
Arrive(g, found) ==
    [g EXCEPT !.currentLocation = found,
              !.visits = IncrementVisits(@, found),
              !.navs = Append(@, found),
              !.availableCommands =
                  GetCommands(FreshGen(g)) \o g.storyCommands \o LocationCommands(found)]

\* The end of the successful branch: centralTimer.clear(), then add() when
\* the location has an onTickCallback.
ReloadTimer(g, found) ==
    IF g.thrown THEN g
    ELSE IF OnTickCallback(found) # "none"
    THEN TimerAdd(TimerClear(g), OnTickCallback(found))
    ELSE TimerClear(g)

\* The scheduler as goTo leaves it when it returns.
AtReturn(g) ==
    [g EXCEPT !.atGoTo = [timers |-> g.timers, timerID |-> g.timerID,
                          pending |-> g.pending]]

\* Game.prototype.goTo.
GoTo(g, locationId) ==
    IF g.thrown THEN g
    ELSE IF LookupLocation(g, locationId) = Undefined
    THEN Display(g, "error", "is not a valid location", <<locationId>>)
    ELSE IF LookupLocation(g, locationId) = ProtoMember
    THEN \* currentLocation.incrementVisits is not a function
         Throw([g EXCEPT !.currentLocation = ProtoMember])
    ELSE AtReturn(ReloadTimer(DisplayCurrentLocationInfo(
                                  BindCommands(Arrive(g, locationId))),
                              locationId))

(***************************************************************************)
(* Entities: exits, lookups by name, reactions                             *)
(***************************************************************************)

\* A JavaScript string used as a condition: undefined and '' are falsy.
Truthy(text) == text # Undefined /\ text # << >>

\* A lookup that compares exit names as written.
GetExitExact(loc, exitName) ==
    LET hits == SelectSeq(Exits(loc), LAMBDA e : e.exitName = exitName)
    IN  IF hits = << >> THEN Undefined ELSE hits[1].destinationLocationId

\* Location.prototype.getExit: the first exit whose name equals exitName,
\* ignoring case; Undefined when there is none.
GetExit(loc, exitName) ==
    LET hits == SelectSeq(Exits(loc), LAMBDA e :
                    ToUpperCase(e.exitName) = ToUpperCase(exitName))
    IN  IF hits = << >> THEN Undefined ELSE hits[1].destinationLocationId

\* One operand of a chain a.findItemByName(n) || b.findItemByName(n) || ...:
\* "inventory" is game.inventory, "items" and "npcs" are the inventories of
\* game.currentLocation, whose dereference throws when currentLocation is
\* no Location.
FindIn(g, source, name) ==
    IF source = "inventory" THEN FindItemByName(g.inventory, name)
    ELSE IF g.currentLocation \notin LocIds THEN [thrown |-> TRUE, item |-> Undefined]
    ELSE FindItemByName(IF source = "items" THEN g.locItems[g.currentLocation]
                        ELSE g.locNpcs[g.currentLocation],
                        name)

\* a || b on two lookups: b is evaluated when a found nothing.
OrElse(r, rest) == IF r.thrown \/ r.item # Undefined THEN r ELSE rest

\* The chain, evaluated left to right up to the first entity found.
RECURSIVE FindFirst(_, _, _)
FindFirst(g, sources, names) ==
    IF sources = << >> THEN [thrown |-> FALSE, item |-> Undefined]
    ELSE OrElse(FindIn(g, Head(sources), Head(names)),
                FindFirst(g, Tail(sources), Tail(names)))

\* An entity reaction was invoked: hook on entity `on`, with argument `arg`.
React(g, hook, on, arg) ==
    [g EXCEPT !.reacts = Append(@, [hook |-> hook, on |-> on, arg |-> arg])]

\* NPC.prototype.onAsk / onTell / onTalk: currentTopic = topic, then the
\* callback or the canned reply (Bob has an ask callback only).
NpcOnAsk(g, npc, topic) ==
    Display(React([g EXCEPT !.currentTopic[npc] = topic], "onAskCallback", npc, topic),
            "message", "reply", <<npc>>)
NpcOnTell(g, npc, topic) ==
    Display(React([g EXCEPT !.currentTopic[npc] = topic], "onTell", npc, topic),
            "message", "I don't know anything about that.", <<npc>>)
\* An onTalk that leaves currentTopic as it is.
NpcOnTalkKeeps(g, npc, topic) ==
    Display(React(g, "onTalk", npc, topic), "message", "Can I help you?", <<npc>>)
NpcOnTalk(g, npc, topic) ==
    Display(React([g EXCEPT !.currentTopic[npc] = topic], "onTalk", npc, topic),
            "message", "Can I help you?", <<npc>>)

\* NPC.prototype.onGive and onUse: the canned replies.
NpcOnGive(g, npc, item) ==
    Display(React(g, "onGive", npc, item), "message", "No thanks.", <<npc>>)
NpcOnUse(g, npc) ==
    Display(React(g, "onUse", npc, Undefined), "message", "What are you doing?", <<npc>>)

\* NPC.prototype.speakingAbout(topics): topics is an array of keywords, or a
\* single keyword that is wrapped into one ([topics]). statement is
\* (this.currentTopic || '').toUpperCase().
OrEmptyString(text) == IF Truthy(text) THEN text ELSE << >>
AsArray(topics, isArray) == IF isArray THEN topics ELSE <<topics>>
Relevant(statement, topics) ==
    /\ statement # << >>
    /\ Len(Trim(statement)) > 0
    /\ \E i \in 1..Len(topics) : Contains(statement, ToUpperCase(OrEmptyString(topics[i])))
SpeakingAbout(topic, topics, isArray) ==
    Relevant(ToUpperCase(OrEmptyString(topic)), AsArray(topics, isArray))

\* An onUse that lets the NPC react after the item's own callback too.
ItemOnUseBoth(g, item, target) ==
    IF HasUseCallback(item)
    THEN (IF target \in NpcIds
          THEN NpcOnUse(Display(React(g, "onUseCallback", item, target),
                                "message", "used", <<item>>), target)
          ELSE Display(React(g, "onUseCallback", item, target), "message", "used", <<item>>))
    ELSE IF target \in NpcIds THEN NpcOnUse(g, target)
    ELSE g

\* Item.prototype.onUse(target).
ItemOnUse(g, item, target) ==
    IF HasUseCallback(item)
    THEN Display(React(g, "onUseCallback", item, target), "message", "used", <<item>>)
    ELSE IF target \in NpcIds THEN NpcOnUse(g, target)
    ELSE g

\* Game.prototype.addItemToInventory.
AddFound(g, itemCode, item) ==
    IF item = Undefined
    THEN Display(g, "error", "Unable to add item to inventory", <<itemCode>>)
    ELSE Display([g EXCEPT !.inventory = AddItem(@, item)],
                 "information", "added to inventory", <<itemCode>>)

AddItemToInventory(g, itemCode) ==
    AddFound(g, itemCode, GetItem(g.availableItems, itemCode))

\* Game.prototype.addItemsToInventory.
RECURSIVE AddItemsToInventory(_, _)
AddItemsToInventory(g, itemCodeArray) ==
    IF itemCodeArray = << >> THEN g
    ELSE AddItemsToInventory(AddItemToInventory(g, Head(itemCodeArray)),
                             Tail(itemCodeArray))

(***************************************************************************)
(* The callbacks of the built-in commands (Game.prototype.getCommands)     *)
(***************************************************************************)

\* new Exit(exitName, destinationLocationId, onExitCallback): the story
\* hands LocB its exit as an Exit built with a callback; the exit of LocA is
\* given as an array, from which addExit builds an Exit without one.
HasExitCallback(loc, destinationLocationId) == loc = LocB /\ destinationLocationId = LocA

\* Exit.prototype.onExit of the exit from loc to destinationLocationId.
ExitOnExit(g, loc, destinationLocationId) ==
    IF HasExitCallback(loc, destinationLocationId)
    THEN React(g, "onExitCallback", loc, destinationLocationId)
    ELSE g

\* A traversal that fires the hook of the exit before it navigates.
GoThroughHooked(g, destination, exit) ==
    IF exit = Undefined
    THEN Display(g, "error", "is not an exit.", <<destination>>)
    ELSE GoTo(ExitOnExit(g, g.currentLocation, exit), exit)

\* go and enter.
GoThrough(g, destination, exit) ==
    IF exit = Undefined
    THEN Display(g, "error", "is not an exit.", <<destination>>)
    ELSE GoTo(g, exit)

CbGo(g, destination) ==
    IF g.currentLocation \notin LocIds THEN Throw(g)
    ELSE GoThrough(g, destination, GetExit(g.currentLocation, destination))

\* examine.
Examine(g, itemName, r) ==
    IF r.thrown THEN Throw(g)
    ELSE IF r.item # Undefined
    THEN Display(g, "description", "description", <<r.item>>)
    ELSE Display(g, "error", "Unknown item", <<itemName>>)

CbExamine(g, itemName) ==
    Examine(g, itemName, FindFirst(g, <<"inventory", "items", "npcs">>,
                                   <<itemName, itemName, itemName>>))

\* take.
Take(g, itemName, r) ==
    IF r.thrown THEN Throw(g)
    ELSE IF r.item = Undefined
    THEN Display(g, "error", "Unknown item", <<itemName>>)
    ELSE IF ~Collectable(r.item)
    THEN Display(g, "error", "You cannot take this item", << >>)
    ELSE Display([g EXCEPT
                     !.locItems[g.currentLocation] = TakeItem(@, r.item),
                     !.inventory = AddItem(@, r.item)],
                 "information", "added to inventory.", <<r.item>>)

CbTake(g, itemName) == Take(g, itemName, FindFirst(g, <<"items">>, <<itemName>>))

\* use: the NPC operand of the target chain looks up itemName.
UseOn(g, itemName, targetName, i, t) ==
    IF i.thrown \/ t.thrown THEN Throw(g)
    ELSE IF i.item = Undefined
    THEN Display(g, "error", "Can't find", <<itemName>>)
    ELSE IF ~Truthy(targetName) THEN ItemOnUse(g, i.item, Undefined)
    ELSE IF t.item = Undefined
    THEN Display(g, "error", "Can't find", <<targetName>>)
    ELSE ItemOnUse(g, i.item, t.item)

UseTarget(g, itemName, targetName, i) ==
    UseOn(g, itemName, targetName, i,
          IF Truthy(targetName) /\ ~i.thrown
          THEN FindFirst(g, <<"inventory", "items", "npcs">>,
                         <<targetName, targetName, itemName>>)
          ELSE [thrown |-> FALSE, item |-> Undefined])

CbUse(g, itemName, targetName) ==
    UseTarget(g, itemName, targetName,
              FindFirst(g, <<"inventory", "items">>, <<itemName, itemName>>))

\* A drop that loses the item: it is not added to the location.
DropAway(g, itemName, r) ==
    IF r.item = Undefined
    THEN Display(g, "error", "Can't find", <<itemName>>)
    ELSE IF g.currentLocation \notin LocIds
    THEN Throw([g EXCEPT !.inventory = RemoveItem(@, r.item)])
    ELSE Display([g EXCEPT !.inventory = RemoveItem(@, r.item)],
                 "information", "Dropped", <<r.item>>)

\* drop.
Drop(g, itemName, r) ==
    IF r.item = Undefined
    THEN Display(g, "error", "Can't find", <<itemName>>)
    ELSE IF g.currentLocation \notin LocIds
    THEN Throw([g EXCEPT !.inventory = RemoveItem(@, r.item)])
    ELSE Display([g EXCEPT
                     !.inventory = RemoveItem(@, r.item),
                     !.locItems[g.currentLocation] = AddItem(@, r.item)],
                 "information", "Dropped", <<r.item>>)

CbDrop(g, itemName) == Drop(g, itemName, FindFirst(g, <<"inventory">>, <<itemName>>))

\* ask and tell.
AskTell(g, hook, npcName, topic, r) ==
    IF r.thrown THEN Throw(g)
    ELSE IF r.item = Undefined
    THEN Display(g, "error", "Can't find", <<npcName>>)
    ELSE IF topic = Undefined \/ Len(Trim(topic)) = 0
    THEN Display(g, "error", "You must specify a topic", <<r.item>>)
    ELSE IF hook = "ask" THEN NpcOnAsk(g, r.item, topic)
    ELSE NpcOnTell(g, r.item, topic)

CbAskTell(g, hook, npcName, topic) ==
    AskTell(g, hook, npcName, topic, FindFirst(g, <<"npcs">>, <<npcName>>))

\* talk to.
Talk(g, npcName, topic, r) ==
    IF r.thrown THEN Throw(g)
    ELSE IF r.item = Undefined
    THEN Display(g, "error", "Can't find", <<npcName>>)
    ELSE NpcOnTalk(g, r.item, topic)

CbTalk(g, npcName, topic) ==
    Talk(g, npcName, topic, FindFirst(g, <<"npcs">>, <<npcName>>))

\* give: the two lookups are not chained as alternatives: the NPC is looked
\* up, and its reaction called, also after an error was displayed.
GiveItem(g, itemName, npcName, i) ==
    IF i.thrown THEN Throw(g)
    ELSE IF i.item = Undefined
    THEN Display(g, "error", "Can't find", <<itemName>>)
    ELSE IF ~Truthy(npcName)
    THEN Display(g, "error", "You must specify an NPC", << >>)
    ELSE g

GiveTo(g1, npcName, i, n) ==
    IF g1.thrown THEN g1
    ELSE IF n.thrown THEN Throw(g1)
    ELSE IF n.item = Undefined
    THEN Display(g1, "error", "Can't find", <<npcName>>)
    ELSE NpcOnGive(g1, n.item, i.item)

GiveNpc(g1, npcName, i) ==
    GiveTo(g1, npcName, i,
           IF g1.thrown THEN [thrown |-> TRUE, item |-> Undefined]
           ELSE FindFirst(g1, <<"npcs">>, <<npcName>>))

GiveFound(g, itemName, npcName, i) ==
    GiveNpc(GiveItem(g, itemName, npcName, i), npcName, i)

CbGive(g, itemName, npcName) ==
    GiveFound(g, itemName, npcName,
              FindFirst(g, <<"inventory", "items">>, <<itemName, itemName>>))

\* supergo and supertake.
CbSuperGo(g, destination) == GoTo(g, destination)
CbSuperTake(g, itemcode) == AddItemToInventory(g, itemcode)

\* The loop of help that prints the description of every command named as
\* the second word asks.
RECURSIVE HelpOn(_, _, _)
HelpOn(g, commands, word) ==
    IF commands = << >> THEN g
    ELSE HelpOn(IF ToUpperCase(ShortName(Head(commands))) = ToUpperCase(word)
                THEN Display(g, "information", "description", <<ShortName(Head(commands))>>)
                ELSE g,
                Tail(commands), word)

\* help: the list of the command names, or the description of one.
CbHelp(g, commandParts) ==
    IF Len(commandParts) > 1
    THEN HelpOn(g, g.availableCommands, commandParts[2])
    ELSE LET others == SelectSeq(g.availableCommands, LAMBDA c :
                           ShortName(c) # ShortName([cmd |-> "help", gen |-> 0]))
         IN  Display(g, "information", "Help",
                     [i \in 1..Len(others) |-> ShortName(others[i])])

\* inventory: the titles of the present entities of the player's inventory.
CbInventory(g) == Display(g, "information", "Inventory", Listing(g.inventory))

\* The story's go command and the command added through addCommand.
CbStoryGo(g, destination) == Display(g, "message", "story go", <<destination>>)
CbHint(g) == g

(***************************************************************************)
(* The lines the player types                                              *)
(***************************************************************************)

LGoSouth == <<"g","o"," ","s","o","u","t","h">>
LGoSouthCaps == <<"G","O"," "," ","S","o","u","t","h">>
LGo == <<"g","o">>
LGoNorth == <<"g","o"," ","n","o","r","t","h">>
LLook == <<"l","o","o","k">>
LSpaceLook == <<" ","l","o","o","k">>
LHelp == <<"h","e","l","p">>
LUse == <<"u","s","e">>
LUseLamp == <<"u","s","e"," ","l","a","m","p">>
LUseKeyOnBob == <<"u","s","e"," ","k","e","y"," ","o","n"," ","b","o","b">>
LGiveKey == <<"g","i","v","e"," ","k","e","y">>
LSuperGoValueOf == <<"s","u","p","e","r","g","o"," ","v","a","l","u","e","O","f">>
LHint == <<"h","i","n","t">>
LXyzzy == <<"x","y","z","z","y">>
PlayLines == {LGoSouth,
          LGoNorth,
          LGoSouthCaps,
          LGo,
          LLook,
          LSpaceLook,
          LHelp,
          LUse,
          LUseLamp,
          LUseKeyOnBob,
          LGiveKey,
          LSuperGoValueOf,
          LHint,
          LXyzzy}

\* The lines built of at most MaxWords of these words, one space between two
\* words, and some lines spaced or cased otherwise.
MaxWords == 4
Words == {<<"u","s","e">>, <<"o","n">>, <<"k","e","y">>}
RECURSIVE Join(_)
Join(ws) == IF Len(ws) = 1 THEN ws[1] ELSE ws[1] \o <<" ">> \o Join(Tail(ws))
LUseGlued == <<"u","s","e","k","e","y">>
LUseWide == <<"u","s","e"," "," ","k","e","y"," "," ","o","n"," "," ","k","e","y">>
LUseCaps == <<"U","S","E"," ","k","e","y"," ","O","N"," ","k","e","y">>
LUseTrail == <<"u","s","e"," ">>
LGoKeyOnKey == <<"g","o"," ","k","e","y"," ","o","n"," ","k","e","y">>
LUseKeyOnKeyOnKey == <<"u","s","e"," ","k","e","y"," ","o","n"," ","k","e","y"," ",
                       "o","n"," ","k","e","y">>
TextLines ==
    {Join(ws) : ws \in UNION {[1..n -> Words] : n \in 1..MaxWords}}
    \cup {LUseGlued, LUseWide, LUseCaps, LUseTrail, LGoKeyOnKey, LUseKeyOnKeyOnKey}

\* The lines about items and NPCs: Zzz names no item and Zed no NPC.
LTakeBox == <<"t","a","k","e"," ","b","o","x">>
LTakeKey == <<"t","a","k","e"," ","k","e","y">>
LTakeZzz == <<"t","a","k","e"," ","z","z","z">>
LDropKey == <<"d","r","o","p"," ","k","e","y">>
LDropZzz == <<"d","r","o","p"," ","z","z","z">>
LExamineZzz == <<"e","x","a","m","i","n","e"," ","z","z","z">>
LUseZzz == <<"u","s","e"," ","z","z","z">>
LUseKeyOnZzz == <<"u","s","e"," ","k","e","y"," ","o","n"," ","z","z","z">>
LGoNowhere == <<"g","o"," ","n","o","w","h","e","r","e">>
LEnterNowhere == <<"e","n","t","e","r"," ","n","o","w","h","e","r","e">>
LAskBob == <<"a","s","k"," ","b","o","b">>
LAskBobAboutKey == <<"a","s","k"," ","b","o","b"," ","a","b","o","u","t"," ","k","e","y">>
LAskZedAboutKey == <<"a","s","k"," ","z","e","d"," ","a","b","o","u","t"," ","k","e","y">>
LTellBob == <<"t","e","l","l"," ","b","o","b">>
LTellZedAboutKey == <<"t","e","l","l"," ","z","e","d"," ","a","b","o","u","t"," ","k","e","y">>
LTalkToBob == <<"t","a","l","k"," ","t","o"," ","b","o","b">>
LTalkToZed == <<"t","a","l","k"," ","t","o"," ","z","e","d">>
LGiveKeyToBob == <<"g","i","v","e"," ","k","e","y"," ","t","o"," ","b","o","b">>
LGiveZzzToBob == <<"g","i","v","e"," ","z","z","z"," ","t","o"," ","b","o","b">>
LGiveKeyToZed == <<"g","i","v","e"," ","k","e","y"," ","t","o"," ","z","e","d">>
ItemLines ==
    {LGoSouth, LGoNorth, LGiveKey, LUseLamp, LUseKeyOnBob,
     LTakeBox, LTakeKey, LTakeZzz, LDropKey,
     LDropZzz, LExamineZzz, LUseZzz, LUseKeyOnZzz,
     LGoNowhere, LEnterNowhere, LAskBob, LAskBobAboutKey,
     LAskZedAboutKey, LTellBob, LTellZedAboutKey, LTalkToBob,
     LTalkToZed, LGiveKeyToBob, LGiveZzzToBob, LGiveKeyToZed}

LExamineBob == <<"e","x","a","m","i","n","e"," ","b","o","b">>
LTalkToBobAboutParty == <<"t","a","l","k"," ","t","o"," ","b","o","b"," ","a","b","o","u","t"," ","t","h","e"," ","P","a","r","t","y">>
LTellBobAboutKey == <<"t","e","l","l"," ","b","o","b"," ","a","b","o","u","t"," ","k","e","y">>

\* The lines about an NPC.
NpcLines == {LExamineBob, LTalkToBob, LTalkToBobAboutParty, LAskBobAboutKey, LTellBobAboutKey,
             LGiveKeyToBob, LUseKeyOnBob}

\* The lines for the commands that test the line themselves.
LLookAround == <<"l","o","o","k"," ","a","r","o","u","n","d">>
LLookCaps == <<"L","O","O","K">>
LLookTrail == <<"l","o","o","k"," ">>
LHelpme == <<"h","e","l","p","m","e">>
LHelpGo == <<"h","e","l","p"," ","g","o">>
LInventory == <<"i","n","v","e","n","t","o","r","y">>
LInventoryNow == <<"i","n","v","e","n","t","o","r","y"," ","n","o","w">>
CallbackLines == {LLook, LSpaceLook, LHelp, LXyzzy, LLookAround, LLookCaps, LLookTrail,
                  LHelpme, LHelpGo, LInventory, LInventoryNow}

\* The lines that list an inventory or look an item up in one.
LExamineKey == <<"e","x","a","m","i","n","e"," ","k","e","y">>
LUseKey == <<"u","s","e"," ","k","e","y">>
ShelfLines == {LTakeKey, LDropKey, LExamineKey, LUseKey, LLook, LInventory, LGoSouth, LGoNorth}

\* The lines that move an item, the debug command among them.
LSuperTakeKey == <<"s","u","p","e","r","t","a","k","e"," ","k","e","y">>
HoldLines == {LTakeKey, LDropKey, LGoSouth, LGoNorth, LUseKey, LSuperTakeKey}

\* The lines that name an exit.
LEnterSouth == <<"e","n","t","e","r"," ","s","o","u","t","h">>
LEnterNorth == <<"E","n","t","e","r"," ","N","o","r","t","h">>
ExitLines == {LGoSouth, LGoNorth, LEnterSouth, LEnterNorth, LGoNowhere, LEnterNowhere}

\* The lines for the built-in list on its own: names that end with another
\* name (supergo, supertake), a name followed by another name, a name run
\* into other letters.
LSuperGoB == <<"s","u","p","e","r","g","o"," ","b">>
BuiltinLines == {LGoSouth, LGoNorth, LEnterSouth, LSuperGoB, LSuperTakeKey, LTakeKey,
                 LHelpGo, LHelpme, LLook, LTalkToBob}

Lines ==
    PlayLines \cup TextLines \cup ItemLines \cup NpcLines \cup CallbackLines \cup ShelfLines
        \cup ExitLines \cup HoldLines \cup BuiltinLines

(***************************************************************************)
(* Command.execute and Game.parseCommand                                   *)
(***************************************************************************)

\* A test that finds the command's name anywhere in the line.
ContainsName(c, commandText) ==
    Contains(ToUpperCase(commandText), ToUpperCase(ShortName(c)))

\* commandText.toUpperCase().startsWith(this.shortName.toUpperCase()).
StartsWithName(c, commandText) ==
    StartsWith(ToUpperCase(commandText), ToUpperCase(ShortName(c)))

\* commandText.trim().toUpperCase() === this.getShortName().toUpperCase().
TrimmedIsName(c, commandText) ==
    ToUpperCase(Trim(commandText)) = ToUpperCase(ShortName(c))

\* Every name a command object is built under.
CmdKinds == {BuiltinCmds[i] : i \in 1..Len(BuiltinCmds)} \cup {StoryGo.cmd, HintCmd.cmd}

\* What the tests and the patterns of each command make of each line of the
\* model, computed once: starts (StartsWithName), trimmed (TrimmedIsName)
\* and targets (Targets).
LineFacts ==
    [line \in Lines |->
        [k \in CmdKinds |->
            LET c == [cmd |-> k, gen |-> 0]
            IN  [starts  |-> StartsWithName(c, line),
                 trimmed |-> TrimmedIsName(c, line),
                 targets |-> Targets(ShortName(c), Preposition(c), line)]]]

\* Console.parse of each line of the model, computed once.
LineParts == [line \in Lines |-> Parse(line)]

\* The callback of a command acted: it was invoked, and for a plain callback
\* its own test of the line passed.
Called(g, c, target1, target2) ==
    [g EXCEPT !.calls = Append(@, [cmd |-> c, target1 |-> target1, target2 |-> target2])]

\* The callback a RegexCallbackCommand was built with, applied to the
\* extracted targets. Every callback starts by reading this.game.
RegexCallback(g, c, target1, target2) ==
    IF c \notin g.bound THEN Throw(g)
    ELSE IF c.cmd \in {"go", "enter"} THEN CbGo(g, target1)
    ELSE IF c.cmd = "examine" THEN CbExamine(g, target1)
    ELSE IF c.cmd = "take" THEN CbTake(g, target1)
    ELSE IF c.cmd = "use" THEN CbUse(g, target1, target2)
    ELSE IF c.cmd = "drop" THEN CbDrop(g, target1)
    ELSE IF c.cmd = "ask" THEN CbAskTell(g, "ask", target1, target2)
    ELSE IF c.cmd = "tell" THEN CbAskTell(g, "tell", target1, target2)
    ELSE IF c.cmd = "talk" THEN CbTalk(g, target1, target2)
    ELSE IF c.cmd = "give" THEN CbGive(g, target1, target2)
    ELSE IF c.cmd = "supergo" THEN CbSuperGo(g, target1)
    ELSE IF c.cmd = "supertake" THEN CbSuperTake(g, target1)
    ELSE CbStoryGo(g, target1)

\* RegexCallbackCommand.prototype.execute on a line of which f tells the
\* test of the name (starts) and the extracted targets.
RegexApply(g, c, f) ==
    IF ~f.starts THEN g
    ELSE IF ~Truthy(f.targets.target1)
    THEN IF c \notin g.bound THEN Throw(g)
         ELSE Display(g, "information", "Usage", <<ShortName(c)>>)
    ELSE RegexCallback(Called(g, c, f.targets.target1, f.targets.target2), c,
                       f.targets.target1, f.targets.target2)

\* RegexCallbackCommand.prototype.execute.
RegexExecute(g, c, commandText) == RegexApply(g, c, LineFacts[commandText][c.cmd])

\* The callback of a CallbackCommand on a line of which f tells its tests
\* (starts for help, trimmed for the others).
CallbackApply(g, c, commandText, commandParts, f) ==
    IF c.cmd = "help"
    THEN IF Truthy(commandText) /\ f.starts
         THEN CbHelp(Called(g, c, Undefined, Undefined), commandParts) ELSE g
    ELSE IF ~(Truthy(commandText) /\ f.trimmed) THEN g
    ELSE IF c.cmd = "hint" THEN CbHint(Called(g, c, Undefined, Undefined))
    ELSE IF c \notin g.bound THEN Throw(g)
    ELSE IF c.cmd = "inventory" THEN CbInventory(Called(g, c, Undefined, Undefined))
    ELSE DisplayCurrentLocationInfo(Called(g, c, Undefined, Undefined))

\* CallbackCommand.prototype.execute: the callback is applied to every line
\* and tests the line itself.
CallbackExecute(g, c, commandText, commandParts) ==
    CallbackApply(g, c, commandText, commandParts, LineFacts[commandText][c.cmd])

\* The fields of the Game and of the objects it reaches.
GameState(g) ==
    [locations |-> g.locations, currentLocation |-> g.currentLocation,
     visits |-> g.visits, locItems |-> g.locItems, locNpcs |-> g.locNpcs,
     availableItems |-> g.availableItems, inventory |-> g.inventory, npcs |-> g.npcs,
     availableCommands |-> g.availableCommands, storyCommands |-> g.storyCommands,
     bound |-> g.bound, currentTopic |-> g.currentTopic,
     timers |-> g.timers, timerID |-> g.timerID, pending |-> g.pending]

\* The entries a call added at the end of a log.
Added(before, after) == SubSeq(after, Len(before) + 1, Len(after))

\* command.execute(commandText, commandParts), recorded in execs with what
\* the call displayed (shown), the callbacks that acted in it (called), the
\* reactions it invoked (reacted), whether it changed the game (changed) and
\* whether it threw: g is the game before the call, r after it.
Recorded(g, c, r) ==
    [r EXCEPT !.execs = Append(@, [cmd     |-> c,
                                   shown   |-> Added(g.out, r.out),
                                   called  |-> Added(g.calls, r.calls),
                                   reacted |-> Added(g.reacts, r.reacts),
                                   changed |-> GameState(r) # GameState(g),
                                   threw   |-> r.thrown])]

Execute(g, c, commandText, commandParts) ==
    Recorded(g, c, IF IsCallbackCommand(c)
                   THEN CallbackExecute(g, c, commandText, commandParts)
                   ELSE RegexExecute(g, c, commandText))

\* A loop that reads game.availableCommands anew at every turn: after a
\* command has replaced the list it goes on in the new one.
RECURSIVE DispatchLive(_, _, _, _)
DispatchLiveFrom(g, r, commands, commandText, commandParts) ==
    DispatchLive(r,
                 IF r.availableCommands = g.availableCommands THEN Tail(commands)
                 ELSE SubSeq(r.availableCommands,
                             Len(g.availableCommands) - Len(commands) + 2,
                             Len(r.availableCommands)),
                 commandText, commandParts)
DispatchLive(g, commands, commandText, commandParts) ==
    IF commands = << >> \/ g.thrown THEN g
    ELSE DispatchLiveFrom(g, Execute(g, Head(commands), commandText, commandParts),
                          commands, commandText, commandParts)

\* The loop of Game.prototype.parseCommand over the list it read when it
\* began; an exception ends it.
RECURSIVE Dispatch(_, _, _, _)
Dispatch(g, commands, commandText, commandParts) ==
    IF commands = << >> \/ g.thrown THEN g
    ELSE Dispatch(Execute(g, Head(commands), commandText, commandParts),
                  Tail(commands), commandText, commandParts)

\* Game.prototype.parseCommand.
ParseCommand(g, commandText, commandParts) ==
    LET commands == g.availableCommands
        held     == {commands[i].gen : i \in 1..Len(commands)}
    IN  Dispatch([g EXCEPT !.held = held, !.dispatched = commands],
                 commands, commandText, commandParts)

(***************************************************************************)
(* centralTimer: the loop                                                  *)
(***************************************************************************)

\* What one invocation of a registered callback does, which is the story's
\* choice: it may call start(), stop(), clear() or add(fn) on the scheduler
\* it runs under or goTo(id) on the game (act), and it returns false
\* ("false") or anything else.
GoToActs == {"goToA", "goToB", "goToC"}
TickChoices ==
    [act : {"none", "start", "stop", "clear", "add"} \cup GoToActs,
     ret : {"void", "zero", "false"}]

\* The location a callback navigates to.
GoToTarget(act) == IF act = "goToA" THEN LocA ELSE IF act = "goToB" THEN LocB ELSE LocC

\* At most MaxTimers callbacks are registered at a time.
MaxTimers == 2

\* The callback a callback registers when it calls add(fn).
AddedFn == TickC

\* The callback that does nothing and returns nothing.
Quiet == [act |-> "none", ret |-> "void"]

\* timers.splice(i, 1), i counted from 1: past the end it removes nothing.
Splice(timers, i) ==
    IF i > Len(timers) THEN timers
    ELSE [k \in 1..(Len(timers) - 1) |-> IF k < i THEN timers[k] ELSE timers[k + 1]]

RECURSIVE RunLoop(_, _)
RECURSIVE AfterCall(_, _)
RECURSIVE RunNext(_)
RECURSIVE TimerStart(_)

\* centralTimer.timers[i](): the callback does what the head of g.script
\* says (it may call start(), stop(), clear() or add(fn) of the scheduler);
\* g.ret is what it returned. A run that needs more choices than the script
\* holds, or a longer list than MaxTimers, is cut (g.cut).
Reenter(g, act) ==
    IF act = "start" THEN TimerStart(g)
    ELSE IF act = "stop" THEN TimerStop(g)
    ELSE IF act = "clear" THEN TimerClear(g)
    ELSE IF act = "add"
    THEN (IF Len(g.timers) < MaxTimers THEN TimerAdd(g, AddedFn) ELSE [g EXCEPT !.cut = TRUE])
    ELSE IF act \in GoToActs THEN GoTo(g, GoToTarget(act))
    ELSE g

Invoke(g, fn) ==
    IF g.script = << >> THEN [g EXCEPT !.cut = TRUE]
    ELSE [Reenter([g EXCEPT !.script = Tail(@), !.ticks = Append(@, fn),
                            !.did = Append(@, Head(g.script))],
                  Head(g.script).act)
          EXCEPT !.ret = Head(g.script).ret]

\* A test that takes every falsy return value for false.
IsFalsy(ret) == ret \in {"false", "zero", "void"}

\* centralTimer.timers[i]() === false.
IsFalse(ret) == ret = "false"

\* An index that moves on after a removal too.
NextIndexSkips(i, removed) == i + 1

\* i-- after a splice, then the i++ of the for loop.
NextIndex(i, removed) == IF removed THEN i ELSE i + 1

\* The body of the for loop after the call of timers[i] left g1.
AfterCall(g1, i) ==
    IF g1.thrown \/ g1.cut THEN g1
    ELSE IF IsFalse(g1.ret)
    THEN RunLoop([g1 EXCEPT !.timers = Splice(@, i)], NextIndex(i, TRUE))
    ELSE RunLoop(g1, NextIndex(i, FALSE))

\* The for loop of runNext from index i on (counted from 1). The list and
\* its length are read anew at every turn of the loop.
RunLoop(g, i) ==
    IF g.thrown \/ g.cut \/ i > Len(g.timers) THEN g
    ELSE AfterCall(Invoke(g, g.timers[i]), i)

\* centralTimer.timerID = setTimeout(runNext, 0).
Reschedule(g1) ==
    IF g1.thrown \/ g1.cut THEN g1
    ELSE [g1 EXCEPT !.timerID = FreshTimeout(g1), !.pending = @ \cup {FreshTimeout(g1)}]

\* runNext: one iteration, then the next one is scheduled through setTimeout.
RunNext(g) ==
    IF Len(g.timers) > 0
    THEN Reschedule(RunLoop(g, 1))
    ELSE g

\* centralTimer.start.
TimerStart(g) == IF g.timerID # 0 THEN g ELSE RunNext(g)

(***************************************************************************)
(* Game.newGame                                                            *)
(***************************************************************************)

\* The story handed to newGame.
Story == [locations     |-> <<LocA, LocB, LocC>>,
          items         |-> <<ItemKey, ItemLamp, ItemBox>>,
          inventory     |-> <<ItemLamp>>,
          npcs          |-> <<NpcBob>>,
          commands      |-> <<StoryGo>>,
          startLocation |-> LocA]
Stories == {Story}

\* The same story without commands of its own (gameData.commands || []).
BareStory == [Story EXCEPT !.commands = << >>]

\* Stories told apart by gameData.name: the story above; one with an empty
\* and one without a locations list; and stories whose starting inventory
\* names codes the item catalog does not hold, NoSuchId and the inherited
\* name valueOf.
NameStory == <<"s","t","o","r","y">>
NameEmpty == <<"e","m","p","t","y">>
NameAbsent == <<"a","b","s","e","n","t">>
NameUnknown == <<"u","n","k","n","o","w","n">>
NameInherited == <<"i","n","h","e","r","i","t","e","d">>
NameSequel == <<"s","e","q","u","e","l">>
StoryNames == {NameStory, NameEmpty, NameAbsent, NameUnknown, NameInherited}
StoryNamed(name) ==
    IF name = NameEmpty THEN [Story EXCEPT !.locations = << >>]
    ELSE IF name = NameAbsent THEN [Story EXCEPT !.locations = Undefined]
    ELSE IF name = NameUnknown THEN [Story EXCEPT !.inventory = <<ItemLamp, NoSuchId, ItemKey>>]
    ELSE IF name = NameInherited THEN [Story EXCEPT !.inventory = <<ValueOfKey, ItemKey>>]
    ELSE IF name = NameSequel THEN [Story EXCEPT !.locations = <<LocC>>, !.startLocation = LocC]
    ELSE Story

\* gameData.locations || [].
OrEmptyList(list) == IF list = Undefined THEN << >> ELSE list

\* Game.prototype.addItemsToLocation and addNpcsToLocation: each code is
\* resolved in the catalog and the entity added to the location's inventory.
RECURSIVE AddToLocation(_, _, _, _)
AddToLocation(g, field, loc, codes) ==
    IF codes = << >> THEN g
    ELSE LET catalog == IF field = "locItems" THEN g.availableItems ELSE g.npcs
             item    == GetItem(catalog, Head(codes))
             g1      == IF item = Undefined
                        THEN Display(g, "error", "Unable to add to location", <<Head(codes)>>)
                        ELSE IF field = "locItems"
                        THEN [g EXCEPT !.locItems[loc] = AddItem(@, item)]
                        ELSE [g EXCEPT !.locNpcs[loc] = AddItem(@, item)]
         IN  AddToLocation(g1, field, loc, Tail(codes))

\* The loop of newGame over gameData.locations.
RECURSIVE RegisterLocations(_, _)
RegisterLocations(g, locs) ==
    IF locs = << >> THEN g
    ELSE LET loc == Head(locs)
             g1  == AddToLocation(g, "locItems", loc, ItemCodes(loc))
             g2  == AddToLocation(g1, "locNpcs", loc, NpcCodes(loc))
         IN  RegisterLocations([g2 EXCEPT !.locations = @ \cup {loc}], Tail(locs))

\* Game.prototype.newGame.
NewGame(g, gameData) ==
    LET g1 == [g EXCEPT !.held = @ \cup {g.availableCommands[i].gen :
                                             i \in 1..Len(g.availableCommands)},
                        !.availableCommands = << >>,
                        !.storyCommands = gameData.commands,
                        !.availableItems = AddItems(EmptyInventory, gameData.items),
                        !.inventory = EmptyInventory]
        g2 == AddItemsToInventory(g1, gameData.inventory)
        g3 == [g2 EXCEPT !.npcs = AddItems(EmptyInventory, gameData.npcs)]
    IN  IF Len(OrEmptyList(gameData.locations)) = 0
        THEN Throw(Display(g3, "error", "There was a problem starting this game.", << >>))
        ELSE GoTo(Display(Display(RegisterLocations(g3, OrEmptyList(gameData.locations)),
                                  "title", "name", << >>),
                          "information", "Type help", << >>),
                  gameData.startLocation)

(***************************************************************************)
(* The state and the operations                                            *)
(***************************************************************************)

\* The bounds of the model: a location is arrived at at most MaxVisits times,
\* and one run of the scheduler (a start() or a fired timeout, with the runs
\* nested in it) invokes at most MaxCalls callbacks.
MaxVisits == 2
MaxCalls == 2
\* The console is handed every text of at most MaxChars characters.
MaxChars == 5
\* At most MaxPending timeouts of runNext are queued at a time.
MaxPending == 2

\* The ids goTo is called with: the locations, an id no location carries and
\* a name inherited from Object.prototype.
GoToIds == LocIds \cup {NoSuchId, ValueOfKey}

VARIABLES
    locations,          \* Game.locations: the ids of the registered locations
    currentLocation,    \* Game.currentLocation
    visits,             \* Location.visits of each location
    locItems,           \* Location.items of each location
    locNpcs,            \* Location.npcs of each location
    availableItems,     \* Game.availableItems: the master item catalog
    inventory,          \* Game.inventory: the player's inventory
    npcs,               \* Game.npcs: the master NPC catalog
    availableCommands,  \* Game.availableCommands
    storyCommands,      \* Game.storyCommands
    bound,              \* the command objects whose game field is this Game
    currentTopic,       \* NPC.currentTopic of each NPC
    timers,             \* centralTimer.timers
    timerID,            \* centralTimer.timerID
    pending,            \* the timeouts of runNext queued in the host
    lastOp,             \* the last operation and its argument
    out,                \* what it displayed
    dispatched,         \* the command list its parseCommand read when it began
    execs,              \* the execute calls it made
    calls,              \* the command callbacks that acted in it
    navs,               \* its successful arrivals
    reacts,             \* the entity reactions it invoked
    ticks,              \* the scheduler callbacks it invoked
    did,                \* what each of them did and returned
    thrown,             \* it ended with an uncaught exception
    atGoTo              \* the scheduler when its last successful goTo returned

vars == <<locations, currentLocation, visits, locItems, locNpcs, availableItems,
          inventory, npcs, availableCommands, storyCommands, bound, currentTopic,
          timers, timerID, pending, lastOp, out, dispatched, execs, calls, navs, reacts,
          ticks, did, thrown, atGoTo>>

NoGoTo == [timers |-> << >>, timerID |-> 0, pending |-> {}]

\* The game as an operation finds it, with an empty record of the operation.
Cur ==
    [locations |-> locations, currentLocation |-> currentLocation, visits |-> visits,
     locItems |-> locItems, locNpcs |-> locNpcs, availableItems |-> availableItems,
     inventory |-> inventory, npcs |-> npcs, availableCommands |-> availableCommands,
     storyCommands |-> storyCommands, bound |-> bound, currentTopic |-> currentTopic,
     timers |-> timers, timerID |-> timerID, pending |-> pending,
     out |-> << >>, dispatched |-> << >>, execs |-> << >>, calls |-> << >>, navs |-> << >>,
     reacts |-> << >>, ticks |-> << >>, did |-> << >>, thrown |-> FALSE,
     held |-> {},
     atGoTo |-> NoGoTo, script |-> << >>, ret |-> "void", cut |-> FALSE]

\* The operation op(arg) ran to its end and left r.
Install(r, op, arg) ==
    /\ \A l \in LocIds : r.visits[l] <= MaxVisits
    /\ ~r.cut
    /\ Cardinality(r.pending) <= MaxPending
    /\ locations' = r.locations
    /\ currentLocation' = r.currentLocation
    /\ visits' = r.visits
    /\ locItems' = r.locItems
    /\ locNpcs' = r.locNpcs
    /\ availableItems' = r.availableItems
    /\ inventory' = r.inventory
    /\ npcs' = r.npcs
    /\ availableCommands' = r.availableCommands
    /\ storyCommands' = r.storyCommands
    /\ bound' = r.bound
    /\ currentTopic' = r.currentTopic
    /\ timers' = r.timers
    /\ timerID' = r.timerID
    /\ pending' = r.pending
    /\ lastOp' = [op |-> op, arg |-> arg]
    /\ out' = r.out
    /\ dispatched' = r.dispatched
    /\ execs' = r.execs
    /\ calls' = r.calls
    /\ navs' = r.navs
    /\ reacts' = r.reacts
    /\ ticks' = r.ticks
    /\ did' = r.did
    /\ thrown' = r.thrown
    /\ atGoTo' = r.atGoTo

\* new Game(console), and the story's entities as their constructors leave
\* them.
Init ==
    /\ locations = {}
    /\ currentLocation = Undefined
    /\ visits = [l \in LocIds |-> 0]
    /\ locItems = [l \in LocIds |-> EmptyInventory]
    /\ locNpcs = [l \in LocIds |-> EmptyInventory]
    /\ availableItems = EmptyInventory
    /\ inventory = EmptyInventory
    /\ npcs = EmptyInventory
    /\ availableCommands = << >>
    /\ storyCommands = << >>
    /\ bound = {}
    /\ currentTopic = [n \in NpcIds |-> Undefined]
    /\ timers = << >>
    /\ timerID = 0
    /\ pending = {}
    /\ lastOp = [op |-> "new Game", arg |-> Undefined]
    /\ out = << >>
    /\ dispatched = << >>
    /\ execs = << >>
    /\ calls = << >>
    /\ navs = << >>
    /\ reacts = << >>
    /\ ticks = << >>
    /\ did = << >>
    /\ thrown = FALSE
    /\ atGoTo = NoGoTo

\* game.newGame(gameData).
DoNewGame == \E gameData \in Stories : Install(NewGame(Cur, gameData), "newGame", Undefined)

\* game.newGame(gameData) with each of the named stories.
DoNewGameOf ==
    \E name \in StoryNames : Install(NewGame(Cur, StoryNamed(name)), "newGame", name)

\* The console's keyup handler: the line is tokenized and handed to
\* game.parseCommand.
DoCommand == \E line \in PlayLines : Install(ParseCommand(Cur, line, LineParts[line]), "parseCommand", line)

\* game.goTo(locationId).
DoGoTo == \E id \in GoToIds : Install(GoTo(Cur, id), "goTo", id)

\* game.addCommand(command).
DoAddCommand ==
    /\ \A i \in 1..Len(availableCommands) : availableCommands[i] # HintCmd
    /\ Install([Cur EXCEPT !.availableCommands = Append(@, HintCmd)], "addCommand", Undefined)

\* The scripts of a run of the scheduler that invokes n callbacks: what
\* each of them does. Only the choices the run used are the story's. In one
\* run at most one callback does something else than return nothing or
\* false: it returns 0, or it calls a method of the scheduler and returns
\* nothing.
Plain(choice) == choice.act = "none" /\ choice.ret \in {"void", "false"}
ScriptChoices ==
    {c \in TickChoices :
        c.act \in {"none", "start", "stop", "clear"} /\ (c.act # "none" => c.ret = "void")}
Scripts ==
    {s \in [1..MaxCalls -> ScriptChoices] :
        \A i, j \in 1..MaxCalls : (~Plain(s[i]) /\ ~Plain(s[j])) => i = j}
Unused(r, script) == \A i \in 1..Len(r.script) : r.script[i] = Quiet

\* game.centralTimer.start().
DoStart ==
    \E script \in Scripts :
        LET r == TimerStart([Cur EXCEPT !.script = script])
        IN  Unused(r, script) /\ Install(r, "start", Undefined)

\* A queued timeout of runNext fires.
DoTimeout ==
    \E id \in pending : \E script \in Scripts :
        LET r == RunNext([Cur EXCEPT !.pending = @ \ {id}, !.script = script])
        IN  Unused(r, script) /\ Install(r, "timeout", Undefined)

\* The scripts of a run whose callbacks leave start(), stop() and clear()
\* alone: each returns nothing or false, and at most one of them calls
\* add(fn) before it returns.
AddChoices == {c \in TickChoices : c.act \in {"none", "add"} /\ c.ret # "zero"}
AddScripts ==
    {s \in [1..MaxCalls -> AddChoices] :
        \A i, j \in 1..MaxCalls : (s[i].act = "add" /\ s[j].act = "add") => i = j}

\* game.centralTimer.start(), the callbacks following a script of AddScripts.
DoStartAdding ==
    \E script \in AddScripts :
        LET r == TimerStart([Cur EXCEPT !.script = script])
        IN  Unused(r, script) /\ Install(r, "start", Undefined)

\* A queued timeout of runNext fires, the callbacks following a script of
\* AddScripts.
DoTimeoutAdding ==
    \E id \in pending : \E script \in AddScripts :
        LET r == RunNext([Cur EXCEPT !.pending = @ \ {id}, !.script = script])
        IN  Unused(r, script) /\ Install(r, "timeout", Undefined)

\* The scripts of a run in which at most one callback navigates, before it
\* returns nothing or false; the others return nothing or false.
NavChoices == {c \in TickChoices : c.act \in {"none"} \cup GoToActs /\ c.ret # "zero"}
NavScripts ==
    {s \in [1..MaxCalls -> NavChoices] :
        \A i, j \in 1..MaxCalls : (s[i].act # "none" /\ s[j].act # "none") => i = j}

\* game.centralTimer.start(), the callbacks following a script of NavScripts.
DoStartNavigating ==
    \E script \in NavScripts :
        LET r == TimerStart([Cur EXCEPT !.script = script])
        IN  Unused(r, script) /\ Install(r, "start", Undefined)

\* A queued timeout of runNext fires, the callbacks following a script of
\* NavScripts.
DoTimeoutNavigating ==
    \E id \in pending : \E script \in NavScripts :
        LET r == RunNext([Cur EXCEPT !.pending = @ \ {id}, !.script = script])
        IN  Unused(r, script) /\ Install(r, "timeout", Undefined)

\* The callbacks the story registers itself.
TickFns == {TickB, TickC}

\* game.centralTimer.add(fn).
DoAdd ==
    /\ Len(timers) < MaxTimers
    /\ \E fn \in TickFns : Install(TimerAdd(Cur, fn), "add", Undefined)

\* game.centralTimer.stop().
DoStop == Install(TimerStop(Cur), "stop", Undefined)

\* game.centralTimer.clear().
DoClear == Install(TimerClear(Cur), "clear", Undefined)

\* The same handler, for the lines of TextLines.
DoTextCommand ==
    \E line \in TextLines : Install(ParseCommand(Cur, line, LineParts[line]), "parseCommand", line)

\* The player and the story: a game is started, lines are typed, the story
\* navigates and adds commands.
\* game.parseCommand(line, console.parse(line)) with a line about items and
\* NPCs.
DoItemCommand ==
    \E line \in ItemLines :
        Install(ParseCommand(Cur, line, LineParts[line]), "parseCommand", line)

Next == DoNewGame \/ DoCommand \/ DoGoTo \/ DoAddCommand
Spec == Init /\ [][Next]_vars

\* The lines of TextLines typed into a started game.
NextText == DoNewGame \/ DoTextCommand
TextSpec == Init /\ [][NextText]_vars

\* Navigation and the scheduler: start() is the story's call, a queued
\* timeout is fired by the host.
NextSched == DoNewGame \/ DoGoTo \/ DoStart \/ DoTimeout
SchedSpec == Init /\ [][NextSched]_vars

\* The host fires every timeout it queued: setTimeout(runNext, 0).
FairSchedSpec == SchedSpec /\ WF_vars(DoTimeout)

\* The scheduler alone, driven by the story: callbacks are registered, the
\* loop is started, stopped and cleared, the host fires the timeouts.
\* inventory.addItem(item) and inventory.removeItem(itemId) on the player's
\* inventory, each after a getItem of the same id whose result is recorded.
DoAddItem ==
    \E item \in StoryEntities :
        Install(Display([Cur EXCEPT !.inventory = AddItem(@, item)],
                        "result", "getItem", <<GetItem(inventory, item)>>),
                "addItem", item)
DoRemoveItem ==
    \E id \in StoryEntities :
        Install(Display([Cur EXCEPT !.inventory = RemoveItem(@, id)],
                        "result", "getItem", <<GetItem(inventory, id)>>),
                "removeItem", id)

\* The same handler, for the lines of ShelfLines.
DoShelfLine ==
    \E line \in ShelfLines :
        Install(ParseCommand(Cur, line, LineParts[line]), "parseCommand", line)

\* Items that are taken, dropped, looked up and listed.
NextShelf == DoNewGame \/ DoShelfLine
ShelfSpec == Init /\ [][NextShelf]_vars

\* The items with the Key's title and the names they are looked up by.
Keys == {ItemKey, ItemCopy, ItemSpare}
FindNames == {ItemKey, Title(ItemCopy), Title(ItemSpare), ItemLamp, <<" ","k","e","Y">>,
              <<"k","e">>, << >>}

\* inventory.addItem(item) and inventory.removeItem(itemId) with these items.
DoStock ==
    \E item \in Keys : Install([Cur EXCEPT !.inventory = AddItem(@, item)], "addItem", item)
DoUnstock ==
    \E id \in Keys : Install([Cur EXCEPT !.inventory = RemoveItem(@, id)], "removeItem", id)

\* inventory.findItemByName(itemName), its result recorded (null as
\* Undefined).
DoFind ==
    \E name \in FindNames :
        Install(Display(Cur, "result", "findItemByName",
                        <<FindItemByName(inventory, name).item>>),
                "findItemByName", name)

\* Lookups by name in the player's inventory.
NextFind == DoNewGame \/ DoStock \/ DoUnstock \/ DoFind
FindSpec == Init /\ [][NextFind]_vars

\* The same handler, for the lines of ExitLines.
DoExitLine ==
    \E line \in ExitLines :
        Install(ParseCommand(Cur, line, LineParts[line]), "parseCommand", line)

\* Navigation through the exits and through goTo.
NextExit == DoNewGame \/ DoGoTo \/ DoExitLine
ExitSpec == Init /\ [][NextExit]_vars

\* The same handler, for the lines of HoldLines.
DoHoldLine ==
    \E line \in HoldLines :
        Install(ParseCommand(Cur, line, LineParts[line]), "parseCommand", line)

\* Items moved by the built-in commands.
NextHold == DoNewGame \/ DoHoldLine
HoldSpec == Init /\ [][NextHold]_vars

\* game.newGame(gameData) on one Game with a story and with a second one
\* that has a single location.
Sequels == {NameStory, NameSequel}
DoNewGameAgain ==
    \E name \in Sequels : Install(NewGame(Cur, StoryNamed(name)), "newGame", name)

\* One story after another on the same Game.
NextAgain == DoNewGameAgain \/ DoGoTo
AgainSpec == Init /\ [][NextAgain]_vars

\* game.newGame(gameData) with the story that brings no commands.
DoNewGameBare == Install(NewGame(Cur, BareStory), "newGame", Undefined)

\* The same handler, for the lines of BuiltinLines.
DoBuiltinLine ==
    \E line \in BuiltinLines :
        Install(ParseCommand(Cur, line, LineParts[line]), "parseCommand", line)

\* The built-in command list on its own.
NextBuiltin == DoNewGameBare \/ DoBuiltinLine
BuiltinSpec == Init /\ [][NextBuiltin]_vars

\* The scheduler with tick callbacks that navigate.
NextNav == DoNewGame \/ DoGoTo \/ DoStartNavigating \/ DoTimeoutNavigating
NavSpec == Init /\ [][NextNav]_vars

\* The Inventory on its own.
NextInventory == DoAddItem \/ DoRemoveItem
InventorySpec == Init /\ [][NextInventory]_vars

\* The topics a story passes to an NPC and the keywords it asks about: a
\* topic in mixed case, a short one, a blank one, the empty string and none.
TopicParty == <<"t","h","e"," ","P","a","r","t","y">>
TopicBlank == <<" "," ">>
Topics == {TopicParty, ItemKey, TopicBlank, << >>, Undefined}
Keywords == {<<"p","a","r","t","y">>, <<"K","E","Y">>, <<"h","e"," ","p">>, <<"x">>, <<" ">>, << >>}
KeywordLists == {<< >>} \cup {<<k>> : k \in Keywords} \cup {<<j, k>> : j, k \in Keywords}

\* The NPC is one of the running game (Inventory.addItem gave it its game).
InGame(npc) == GetItem(npcs, npc) = npc

\* npc.onAsk(topic), npc.onTell(topic), npc.onTalk(topic), npc.onGive(item)
\* and npc.onUse(), called by the story.
DoOnAsk ==
    \E npc \in NpcIds, topic \in Topics :
        InGame(npc) /\ Install(NpcOnAsk(Cur, npc, topic), "onAsk", topic)
DoOnTell ==
    \E npc \in NpcIds, topic \in Topics :
        InGame(npc) /\ Install(NpcOnTell(Cur, npc, topic), "onTell", topic)
DoOnTalk ==
    \E npc \in NpcIds, topic \in Topics :
        InGame(npc) /\ Install(NpcOnTalk(Cur, npc, topic), "onTalk", topic)
DoOnGive ==
    \E npc \in NpcIds, item \in ItemIds :
        InGame(npc) /\ Install(NpcOnGive(Cur, npc, item), "onGive", item)
DoOnUse ==
    \E npc \in NpcIds : InGame(npc) /\ Install(NpcOnUse(Cur, npc), "onUse", Undefined)

\* npc.speakingAbout(keyword) and npc.speakingAbout([keywords]): the record
\* of the operation is the keywords asked about and the answer.
Answer(b) == IF b THEN "true" ELSE "false"
DoSpeakingAbout ==
    \E npc \in NpcIds :
        \/ \E k \in Keywords :
              Install(Display(Cur, "result", Answer(SpeakingAbout(currentTopic[npc], k, FALSE)), <<k>>),
                      "speakingAbout", npc)
        \/ \E ks \in KeywordLists :
              Install(Display(Cur, "result", Answer(SpeakingAbout(currentTopic[npc], ks, TRUE)), ks),
                      "speakingAbout", npc)

\* item.onUse(target) on an item of the catalog, with no target, an item or
\* an NPC as target; the call is recorded first.
UseTargets == {Undefined} \cup StoryEntities
DoItemOnUse ==
    \E item \in ItemIds, target \in UseTargets :
        /\ GetItem(availableItems, item) = item
        /\ Install(ItemOnUse(Display(Cur, "call", "onUse", <<item, target>>), item, target),
                   "Item.onUse", item)

\* game.parseCommand with a line about an NPC.
DoNpcCommand ==
    \E line \in NpcLines :
        Install(ParseCommand(Cur, line, LineParts[line]), "parseCommand", line)

\* The story and the player with an NPC.
NextNpc == DoNewGame \/ DoOnAsk \/ DoOnTell \/ DoOnTalk \/ DoOnGive \/ DoOnUse
               \/ DoSpeakingAbout \/ DoNpcCommand \/ DoItemOnUse
NpcSpec == Init /\ [][NextNpc]_vars

\* game.parseCommand with a line for help, inventory or look.
DoCallbackLine ==
    \E line \in CallbackLines :
        Install(ParseCommand(Cur, line, LineParts[line]), "parseCommand", line)

\* The player moving and typing help, inventory and look.
NextCallback == DoNewGame \/ DoGoTo \/ DoCallbackLine
CallbackSpec == Init /\ [][NextCallback]_vars

\* The texts handed to the tokenizer: every text of at most MaxChars
\* characters out of a letter, the space and the double quote, and the line
\* go "south door".
LGoQuoted == <<"g","o"," ","\"","s","o","u","t","h"," ","d","o","o","r","\"">>
ParseTexts ==
    UNION {[1..n -> {"a", " ", "\""}] : n \in 0..MaxChars} \cup {LGoQuoted}

\* console.parse(commandText): the line is echoed, then tokenized.
DoParse ==
    \E commandText \in ParseTexts :
        Install(Display(Display(Cur, "echo", ">", <<commandText>>),
                        "result", "parse", Parse(commandText)),
                "parse", commandText)

\* The tokenizer on its own.
NextParse == DoParse
ParseSpec == Init /\ [][NextParse]_vars

\* The starts of games, with the moves between them.
NextStart == DoNewGameOf \/ DoGoTo
StartSpec == Init /\ [][NextStart]_vars

\* The play with items and NPCs.
NextItem == DoNewGame \/ DoItemCommand
ItemSpec == Init /\ [][NextItem]_vars

NextTimer == DoAdd \/ DoStart \/ DoStop \/ DoClear \/ DoTimeout
TimerSpec == Init /\ [][NextTimer]_vars

\* The scheduler with callbacks that change the list while it is walked.
NextAdding == DoAdd \/ DoStartAdding \/ DoTimeoutAdding \/ DoStop
AddingSpec == Init /\ [][NextAdding]_vars

(***************************************************************************)
(* Properties                                                              *)
(***************************************************************************)

\* The commands of a sequence of execs entries or of calls entries.
CmdsOf(log) == [i \in 1..Len(log) |-> log[i].cmd]

\* An execute call did something: it displayed, invoked a callback or a
\* reaction, changed the game or threw.
Acted(e) ==
    e.shown # << >> \/ e.called # << >> \/ e.reacted # << >> \/ e.changed \/ e.threw

\* The line matches command c: a RegexCallbackCommand extracts a target from
\* it, a plain callback's own test of the line passes.
Matches(c, line) ==
    IF c.cmd = "help" THEN StartsWith(ToUpperCase(line), ToUpperCase(ShortName(c)))
    ELSE IF IsCallbackCommand(c) THEN ToUpperCase(Trim(line)) = ToUpperCase(ShortName(c))
    ELSE /\ StartsWith(ToUpperCase(line), ToUpperCase(ShortName(c)))
         /\ Truthy(Targets(ShortName(c), Preposition(c), line).target1)

\* C1: parseCommand calls execute on every command of the list it read,
\* exactly once and in list order, whatever the line; it does not stop after
\* a match, so the callbacks of all the commands that match the line have run,
\* in list order.
C1_EveryCommandOffered ==
    lastOp.op = "parseCommand" =>
        /\ CmdsOf(execs) = dispatched
        /\ CmdsOf(calls) = SelectSeq(dispatched, LAMBDA c : Matches(c, lastOp.arg))

\* C1, for the dispatches no exception ended.
C1_OfferedUnlessThrown ==
    (lastOp.op = "parseCommand" /\ ~thrown) => C1_EveryCommandOffered

\* Both commands named go acted on one line, in list order.
C1_TwoMatches ==
    /\ lastOp.op = "parseCommand"
    /\ ~thrown
    /\ \E i, j \in 1..Len(calls) : i < j /\ calls[i].cmd.cmd = "go" /\ calls[j].cmd = StoryGo

\* C2 as stated: a built-in command or RegexCallbackCommand offered a line
\* that does not start with its name (ignoring case) does nothing: no change
\* of the game, no callback, nothing displayed.
C2_NoPrefixNoEffect ==
    lastOp.op = "parseCommand" =>
        \A i \in 1..Len(execs) :
            (execs[i].cmd # HintCmd
             /\ ~StartsWith(ToUpperCase(lastOp.arg), ToUpperCase(ShortName(execs[i].cmd))))
            => ~Acted(execs[i])

\* C2 as amended: the same for a line that, once trimmed, does not start
\* with the command's name.
C2_NoTrimmedPrefixNoEffect ==
    lastOp.op = "parseCommand" =>
        \A i \in 1..Len(execs) :
            (execs[i].cmd # HintCmd
             /\ ~StartsWith(ToUpperCase(Trim(lastOp.arg)), ToUpperCase(ShortName(execs[i].cmd))))
            => ~Acted(execs[i])

\* A line no command's name starts was offered to the whole list, and one
\* that only look acts on was offered to the other fourteen built-ins.
C2_Witness ==
    /\ lastOp.op = "parseCommand"
    /\ lastOp.arg = LSpaceLook
    /\ Len(execs) >= Len(BuiltinCmds)
    /\ \E i \in 1..Len(execs) : execs[i].cmd.cmd = "look" /\ Acted(execs[i])
    /\ \E i \in 1..Len(execs) : execs[i].cmd.cmd = "go" /\ ~Acted(execs[i])

\* The phrases of at most MaxWords - 1 words, one space between two words,
\* that do not contain the word prep.
Phrases ==
    [prep \in Words \cup {Undefined} |->
        {Join(ws) : ws \in {w \in UNION {[1..n -> Words] : n \in 1..(MaxWords - 1)} :
                               \A k \in 1..Len(w) : w[k] # prep}}]

Sp == <<" ">>

\* C3: a RegexCallbackCommand built with a preposition, offered
\* '<name> A <preposition> B' with A and B non-empty and free of the
\* preposition word, invokes its callback exactly once with target1 = A and
\* target2 = B (the long form wins over the short form); offered '<name> A'
\* without the preposition word it invokes it exactly once with target1 = A
\* and no target2; a command built without a preposition never passes a
\* target2.
C3_Targets ==
    lastOp.op = "parseCommand" =>
        \A i \in 1..Len(execs) :
            LET e    == execs[i]
                c    == e.cmd
                name == ShortName(c)
                prep == Preposition(c)
                line == lastOp.arg
            IN  (~IsCallbackCommand(c) /\ StartsWith(line, name)) =>
                  /\ prep \in Words =>
                        /\ \A A \in Phrases[prep], B \in Phrases[prep] :
                              line = name \o Sp \o A \o Sp \o prep \o Sp \o B
                              => e.called = <<[cmd |-> c, target1 |-> A, target2 |-> B]>>
                        /\ \A A \in Phrases[prep] :
                              line = name \o Sp \o A
                              => e.called = <<[cmd |-> c, target1 |-> A,
                                               target2 |-> Undefined]>>
                  /\ prep = Undefined =>
                        /\ \A k \in 1..Len(e.called) : e.called[k].target2 = Undefined
                        /\ \A A \in Phrases[Undefined] :
                              line = name \o Sp \o A
                              => e.called = <<[cmd |-> c, target1 |-> A,
                                               target2 |-> Undefined]>>

\* 'use key on key' reached the callback of use as (key, key).
C3_Witness ==
    /\ lastOp.op = "parseCommand"
    /\ lastOp.arg = Join(<<<<"u","s","e">>, <<"k","e","y">>, <<"o","n">>, <<"k","e","y">>>>)
    /\ \E i \in 1..Len(calls) :
          /\ calls[i].cmd.cmd = "use"
          /\ calls[i].target1 = <<"k","e","y">>
          /\ calls[i].target2 = <<"k","e","y">>

\* The character after the command's name in the line is not a space, or
\* the line ends with the name: neither pattern can match.
NoArgument(c, line) ==
    /\ StartsWith(ToUpperCase(line), ToUpperCase(ShortName(c)))
    /\ Len(line) = Len(ShortName(c)) \/ line[Len(ShortName(c)) + 1] # " "

\* C4: a RegexCallbackCommand offered a line that starts with its name but
\* matches neither pattern displays its usage description exactly once,
\* does not invoke its callback and changes nothing of the game.
C4_UsageOnly ==
    lastOp.op = "parseCommand" =>
        \A i \in 1..Len(execs) :
            LET e == execs[i]
            IN  (~IsCallbackCommand(e.cmd) /\ NoArgument(e.cmd, lastOp.arg)) =>
                  /\ e.shown = <<[kind |-> "information", tag |-> "Usage",
                                  args |-> <<ShortName(e.cmd)>>]>>
                  /\ e.called = << >>
                  /\ e.reacted = << >>
                  /\ ~e.changed
                  /\ ~e.threw

\* The glued line 'usekey' got the usage of use.
C4_Witness ==
    /\ lastOp.op = "parseCommand"
    /\ lastOp.arg = LUseGlued
    /\ \E i \in 1..Len(execs) :
          /\ execs[i].cmd.cmd = "use"
          /\ Len(execs[i].shown) = 1
          /\ execs[i].shown[1].tag = "Usage"

\* The lines 'go x' of the model and the x of each.
GoLines ==
    {[line |-> LGoSouth, x |-> <<"s","o","u","t","h">>],
     [line |-> LGoNorth, x |-> <<"n","o","r","t","h">>]}

\* The elements of a sequence.
Range(seq) == {seq[i] : i \in 1..Len(seq)}

\* C5: with the player in a location, 'go x' moves the player to the
\* destination of the location's exit named x, names compared without
\* regard to case; when the location has no exit named x an error is
\* displayed and the player stays where they are.
C5_Go ==
    [][\A gl \in GoLines :
          (lastOp' = [op |-> "parseCommand", arg |-> gl.line] /\ currentLocation \in LocIds) =>
              LET named == SelectSeq(Exits(currentLocation), LAMBDA e :
                               ToUpperCase(e.exitName) = ToUpperCase(gl.x))
              IN  IF named # << >>
                  THEN currentLocation' = named[1].destinationLocationId
                  ELSE /\ currentLocation' = currentLocation
                       /\ [kind |-> "error", tag |-> "is not an exit.", args |-> <<gl.x>>]
                              \in Range(out')]_vars

\* The player went south from the start location and asked for south again:
\* the player is in the second location and the line was answered with the
\* error.
C5_Witness ==
    /\ lastOp = [op |-> "parseCommand", arg |-> LGoSouth]
    /\ currentLocation = LocB
    /\ visits = [l \in LocIds |-> IF l = LocC THEN 0 ELSE 1]
    /\ navs = << >>
    /\ [kind |-> "error", tag |-> "is not an exit.", args |-> <<<<"s","o","u","t","h">>>>]
           \in Range(out)

\* C6: goTo with an id that is not a registered location does not throw,
\* displays one error and leaves the current location, the visit counters,
\* the command list and the scheduler's list as they were.
C6_UnregisteredGoTo ==
    [][(lastOp'.op = "goTo" /\ lastOp'.arg \notin locations) =>
          /\ ~thrown'
          /\ Len(SelectSeq(out', LAMBDA o : o.kind = "error")) = 1
          /\ UNCHANGED <<currentLocation, visits, availableCommands, timers>>]_vars

\* C6 for the ids that name no member of Object.prototype.
C6_UnknownPlainId ==
    [][(lastOp'.op = "goTo" /\ lastOp'.arg = NoSuchId) =>
          /\ ~thrown'
          /\ Len(SelectSeq(out', LAMBDA o : o.kind = "error")) = 1
          /\ UNCHANGED <<currentLocation, visits, availableCommands, timers>>]_vars

\* How many times x occurs in a sequence.
Count(seq, x) == Cardinality({i \in 1..Len(seq) : seq[i] = x})

\* C7: goTo with a registered id makes that location the current one and
\* adds exactly 1 to its visits, the visits of the other locations staying
\* as they were; over any operation the visits of a location grow by the
\* number of arrivals at it.
C7_Visits ==
    [][/\ (lastOp'.op = "goTo" /\ lastOp'.arg \in locations) =>
             /\ currentLocation' = lastOp'.arg
             /\ visits' = [visits EXCEPT ![lastOp'.arg] = @ + 1]
       /\ \A l \in LocIds : visits'[l] = visits[l] + Count(navs', l)]_vars

\* goTo took the player to the location they were already in, the only one
\* visited so far, and counted a second visit.
C7_Witness ==
    /\ lastOp = [op |-> "goTo", arg |-> LocA]
    /\ currentLocation = LocA
    /\ navs = <<LocA>>
    /\ visits = [l \in LocIds |-> IF l = LocA THEN 2 ELSE 0]

\* C8: after an operation in which goTo succeeded the command list is the
\* built-in commands, then the story commands, then the commands of the new
\* location, in this order; no command that was only in the previous list
\* is in it; every command of it is bound to the game.
C8_Rebuilt ==
    [][navs' # << >> =>
          /\ CmdsOf(availableCommands')
                 = CmdsOf(GetCommands(0)) \o CmdsOf(storyCommands')
                   \o CmdsOf(LocationCommands(currentLocation'))
          /\ SubSeq(availableCommands', Len(BuiltinCmds) + 1,
                    Len(BuiltinCmds) + Len(storyCommands')) = storyCommands'
          /\ \A c \in Range(availableCommands) \ Range(storyCommands') :
                c \notin Range(availableCommands')
          /\ Range(availableCommands') \subseteq bound']_vars

\* 'go south' was dispatched over a list that held the added command, and
\* the list the arrival built no longer holds it.
C8_Witness ==
    /\ lastOp = [op |-> "parseCommand", arg |-> LGoSouth]
    /\ navs = <<LocB>>
    /\ HintCmd \in Range(dispatched)
    /\ HintCmd \notin Range(availableCommands)
    /\ Len(availableCommands) = Len(BuiltinCmds) + 1

\* C9: when a successful goTo returns, the scheduler's list holds the tick
\* callback of the new location if it declares one and nothing otherwise,
\* and no next iteration of the scheduler is pending.
C9_SchedulerAfterGoTo ==
    navs # << >> =>
        /\ atGoTo.timers = IF OnTickCallback(navs[Len(navs)]) # "none"
                           THEN <<OnTickCallback(navs[Len(navs)])>> ELSE << >>
        /\ atGoTo.pending = {}

\* C9, the list alone.
C9_ListAfterGoTo ==
    navs # << >> =>
        atGoTo.timers = IF OnTickCallback(navs[Len(navs)]) # "none"
                        THEN <<OnTickCallback(navs[Len(navs)])>> ELSE << >>

\* The last arrival of the operation was at l.
Arrived(l) == navs # << >> /\ navs[Len(navs)] = l

\* C10: after the navigation that makes a location with a tick callback the
\* current one, the callback is eventually invoked, unless the player
\* navigates away first.
C10_TickEventually ==
    \A l \in {LocB, LocC} :
        Arrived(l) ~> (OnTickCallback(l) \in Range(ticks) \/ currentLocation # l)

\* The step is one iteration of the scheduler: a queued timeout fired, or
\* start() found the loop not running.
IsIteration == lastOp'.op = "timeout" \/ (lastOp'.op = "start" /\ timerID = 0)

\* No callback invoked in the step called a method of the scheduler.
NoReentry == \A k \in 1..Len(did') : did'[k].act = "none"

\* The callbacks registered through add(fn) by the invocations of d.
RECURSIVE AddedDuring(_)
AddedDuring(d) ==
    IF d = << >> THEN << >>
    ELSE (IF Head(d).act = "add" THEN <<AddedFn>> ELSE << >>) \o AddedDuring(Tail(d))

\* C11: start() while the loop runs is a no-op, also when a callback calls
\* it during an iteration: at most one next iteration is pending, and in
\* one tick no callback is invoked more often than it is registered.
C11_StartIdempotent ==
    [][/\ Cardinality(pending') <= 1
       /\ \A fn \in TickFns : Count(ticks', fn) <= Count(timers \o AddedDuring(did'), fn)]_vars

\* C11 for the calls of start() from outside a callback.
C11_StartFromOutside ==
    [][(lastOp'.op = "start" /\ timerID # 0) =>
          /\ ticks' = << >>
          /\ UNCHANGED <<timers, timerID, pending>>]_vars

\* C12: an iteration invokes every registered callback exactly once, in
\* registration order, also when callbacks are removed on the way, and then
\* queues the next iteration; an iteration that finds the list empty invokes
\* nothing and queues nothing.
C12_Iteration ==
    [][(IsIteration /\ NoReentry) =>
          /\ ticks' = timers
          /\ timers # << >> =>
                /\ timerID' \in pending'
                /\ Cardinality(pending')
                       = Cardinality(pending) + (IF lastOp'.op = "start" THEN 1 ELSE 0)
          /\ (timers = << >> /\ lastOp'.op = "timeout") =>
                /\ pending' \subseteq pending
                /\ Cardinality(pending') = Cardinality(pending) - 1
          /\ (timers = << >> /\ lastOp'.op = "start") => pending' = pending]_vars

\* A fired timeout invoked both registered callbacks in order although the
\* first one was removed on the way, and the next iteration is queued.
C12_Witness ==
    /\ lastOp.op = "timeout"
    /\ ticks = <<TickB, TickC>>
    /\ did[1].ret = "false"
    /\ timers = <<TickC>>
    /\ timerID \in pending

\* The callbacks of a list whose invocation, entry by entry of d, did not
\* return false.
RECURSIVE KeepWhere(_, _)
KeepWhere(seq, d) ==
    IF seq = << >> THEN << >>
    ELSE (IF Head(d).ret = "false" THEN << >> ELSE <<Head(seq)>>)
         \o KeepWhere(Tail(seq), Tail(d))

\* C13: an iteration removes from the list exactly the callbacks whose
\* invocation returned false; one that returned nothing or another value
\* stays, and the callbacks that stay keep their order.
C13_RemovedIffFalse ==
    [][(IsIteration /\ NoReentry) =>
          /\ Len(did') = Len(timers)
          /\ timers' = KeepWhere(timers, did')]_vars

\* In one iteration the first callback returned 0 and stayed, the second
\* returned false and was removed.
C13_Witness ==
    /\ lastOp.op = "timeout"
    /\ ticks = <<TickB, TickC>>
    /\ did = <<[act |-> "none", ret |-> "zero"], [act |-> "none", ret |-> "false"]>>
    /\ timers = <<TickB>>

\* The k-th callback invoked in the step called the method act, and no
\* callback invoked in the step called start().
LastCalled(act, k) ==
    /\ did'[k].act = act
    /\ \A j \in 1..Len(did') : did'[j].act # "start"

\* C14: after stop() the list is as it was and no callback is invoked
\* until start() is called: none is invoked later in the same iteration
\* and no iteration is queued, also when a callback called stop().
C14_Stop ==
    [][/\ lastOp'.op = "stop" => (timers' = timers /\ pending' = {})
       /\ \A k \in 1..Len(did') :
             LastCalled("stop", k) => (Len(did') = k /\ pending' = {})]_vars

\* C14 for the list and for the timeout timerID names.
C14_StopFromOutside ==
    [][lastOp'.op = "stop" =>
          (timers' = timers /\ timerID' = 0 /\ pending' = pending \ {timerID})]_vars

\* C15: after clear() the list is empty and no iteration is queued, also
\* when a callback called clear(); no callback is invoked later in the same
\* iteration.
C15_Clear ==
    [][/\ lastOp'.op = "clear" => (timers' = << >> /\ pending' = {})
       /\ \A k \in 1..Len(did') :
             LastCalled("clear", k) =>
                 (Len(did') = k /\ timers' = << >> /\ pending' = {})]_vars

\* C15 without the queue: the list is empty after clear() and the iteration
\* a callback called it in invokes no further callback.
C15_ListCleared ==
    [][/\ lastOp'.op = "clear" => timers' = << >>
       /\ \A k \in 1..Len(did') :
             LastCalled("clear", k) => (Len(did') = k /\ timers' = << >>)]_vars

\* The step is parseCommand of the line, with the built-in command cmd in
\* the list of the game.
Typed(line, cmd) ==
    /\ lastOp' = [op |-> "parseCommand", arg |-> line]
    /\ \E i \in 1..Len(availableCommands) : availableCommands[i].cmd = cmd

\* An error was displayed by the operation.
ErrorShown(log) == \E i \in 1..Len(log) : log[i].kind = "error"

\* C16: 'take' with the title of a Fixture displays an error and leaves
\* the inventory of every location and the player's inventory as they were,
\* whether the Fixture is in the current location or not.
C16_TakeFixture ==
    [][Typed(LTakeBox, "take") =>
          /\ ErrorShown(out')
          /\ ~thrown'
          /\ UNCHANGED <<locItems, inventory>>]_vars

\* 'take box' was typed in the location of the Box and was refused.
C16_Witness ==
    /\ lastOp = [op |-> "parseCommand", arg |-> LTakeBox]
    /\ currentLocation = LocA
    /\ GetItem(locItems[LocA], ItemBox) = ItemBox
    /\ \E i \in 1..Len(out) : out[i].tag = "You cannot take this item"
    /\ GetItem(inventory, ItemBox) = Undefined

\* The slots an inventory holds under the id.
Slots(inv, id) == Cardinality({i \in 1..Len(inv) : inv[i].id = id /\ inv[i].present})

\* C17: 'take' with the title of a collectable item of the current
\* location removes the item from the location's inventory, where getItem and
\* findItemByName no longer return it, and puts it once into the player's
\* inventory, the other items staying where they are; typed again, the line
\* displays the unknown-item error and changes neither inventory.
C17_Take ==
    [][(Typed(LTakeKey, "take") /\ currentLocation \in LocIds) =>
          IF GetItem(locItems[currentLocation], ItemKey) = ItemKey
          THEN /\ GetItem(locItems'[currentLocation], ItemKey) = Undefined
               /\ FindItemByName(locItems'[currentLocation], Title(ItemKey)).item = Undefined
               /\ GetItem(inventory', ItemKey) = ItemKey
               /\ Slots(inventory', ItemKey) = 1
               /\ Slots(locItems'[currentLocation], ItemKey) = 0
               /\ \A l \in LocIds \ {currentLocation} : locItems'[l] = locItems[l]
               /\ \A id \in ItemIds \ {ItemKey} :
                     /\ GetItem(inventory', id) = GetItem(inventory, id)
                     /\ \A l \in LocIds : GetItem(locItems'[l], id) = GetItem(locItems[l], id)
               /\ ~ErrorShown(out')
          ELSE /\ \E i \in 1..Len(out') : out'[i].tag = "Unknown item"
               /\ UNCHANGED <<locItems, inventory>>]_vars

\* 'take key' moved the Key from LocA into the player's inventory.
C17_Witness ==
    /\ lastOp = [op |-> "parseCommand", arg |-> LTakeKey]
    /\ currentLocation = LocA
    /\ HasKey(locItems[LocA], ItemKey)
    /\ GetItem(locItems[LocA], ItemKey) = Undefined
    /\ GetItem(inventory, ItemKey) = ItemKey
    /\ ~ErrorShown(out)

\* C17, typed again: 'take key' with the Key already taken from this
\* location is refused.
C17_WitnessAgain ==
    /\ lastOp = [op |-> "parseCommand", arg |-> LTakeKey]
    /\ currentLocation = LocA
    /\ GetItem(inventory, ItemKey) = ItemKey
    /\ ErrorShown(out)

\* C18: after addItem(x) getItem(x.id) returns x and findItemByName finds
\* it by its title; after removeItem(x.id) getItem returns nothing and
\* findItemByName finds nothing under the title; addItem(x) after that makes
\* it retrievable again. No other entity of the inventory is touched.
C18_AddRemove ==
    [][/\ lastOp'.op = "addItem" =>
             /\ GetItem(inventory', lastOp'.arg) = lastOp'.arg
             /\ FindItemByName(inventory', Title(lastOp'.arg))
                    = [thrown |-> FALSE, item |-> lastOp'.arg]
       /\ lastOp'.op = "removeItem" =>
             /\ GetItem(inventory', lastOp'.arg) = Undefined
             /\ FindItemByName(inventory', Title(lastOp'.arg))
                    = [thrown |-> FALSE, item |-> Undefined]
       /\ lastOp'.op \in {"addItem", "removeItem"} =>
             \A id \in EntityIds \ {lastOp'.arg} :
                 GetItem(inventory', id) = GetItem(inventory, id)]_vars

\* The Key is retrievable after an addItem that found its key in the
\* inventory with the value undefined, as removeItem leaves it, in front of an
\* entity added later.
C18_Witness ==
    /\ lastOp = [op |-> "addItem", arg |-> ItemKey]
    /\ out = <<[kind |-> "result", tag |-> "getItem", args |-> <<Undefined>>]>>
    /\ Len(inventory) = 2
    /\ inventory[1] = [id |-> ItemKey, present |-> TRUE]
    /\ GetItem(inventory, ItemKey) = ItemKey

\* C19: in every state after a newGame that succeeded, parseCommand
\* returns normally for every line, also a line that leaves out the optional
\* second target: no error propagates out of it.
C19_ReturnsNormally ==
    (lastOp.op = "parseCommand" /\ locations # {}) => ~thrown

\* C19 for the lines of the model other than 'give' without its 'to'.
C19_OnlyGiveThrows ==
    (lastOp.op = "parseCommand" /\ thrown) =>
        /\ lastOp.arg = LGiveKey
        /\ Present(locNpcs[currentLocation]) # << >>

\* The lines that name an exit, an item or an NPC the game does not have,
\* or leave out the topic or the target a command requires, each with the
\* command it is for.
NotFoundLines ==
    {[line |-> LGoNowhere, cmd |-> "go"], [line |-> LEnterNowhere, cmd |-> "enter"],
     [line |-> LExamineZzz, cmd |-> "examine"], [line |-> LTakeZzz, cmd |-> "take"],
     [line |-> LUseZzz, cmd |-> "use"], [line |-> LUseKeyOnZzz, cmd |-> "use"],
     [line |-> LDropZzz, cmd |-> "drop"],
     [line |-> LAskZedAboutKey, cmd |-> "ask"], [line |-> LAskBob, cmd |-> "ask"],
     [line |-> LTellZedAboutKey, cmd |-> "tell"], [line |-> LTellBob, cmd |-> "tell"],
     [line |-> LTalkToZed, cmd |-> "talk"],
     [line |-> LGiveZzzToBob, cmd |-> "give"], [line |-> LGiveKeyToZed, cmd |-> "give"],
     [line |-> LGiveKey, cmd |-> "give"]}

\* The step displays an error, leaves the world as it was and invokes no
\* reaction of an entity.
RefusedOnly ==
    /\ ErrorShown(out')
    /\ reacts' = << >>
    /\ UNCHANGED <<locations, currentLocation, visits, locItems, locNpcs, availableItems,
                   inventory, npcs, availableCommands, currentTopic, timers, timerID,
                   pending>>

\* C20: go, enter, examine, take, use, drop, ask, tell, talk to and give
\* with an exit, item or NPC that is not found, or without the topic or the
\* target they require, display an error, change nothing of the world and
\* invoke no reaction.
C20_Refused ==
    [][\A nf \in NotFoundLines : Typed(nf.line, nf.cmd) => RefusedOnly]_vars

\* C20 for every case but give with an unknown item to an NPC that is
\* present.
C20_RefusedButGive ==
    [][\A nf \in NotFoundLines :
          (/\ Typed(nf.line, nf.cmd)
           /\ ~(nf.line = LGiveZzzToBob /\ Present(locNpcs[currentLocation]) # << >>))
          => RefusedOnly]_vars

\* The errors an operation displayed.
Errors(log) == SelectSeq(log, LAMBDA m : m.kind = "error")

\* C21: newGame with an empty or an absent locations list displays an
\* error and then raises; the start is aborted: the registered locations, the
\* current location and the visits are what they were (none and unset in a
\* new Game), nothing is navigated to and the command list is left empty.
C21_NoLocations ==
    [][(lastOp'.op = "newGame" /\ lastOp'.arg \in {NameEmpty, NameAbsent}) =>
          /\ \E i \in 1..Len(out') : out'[i].tag = "There was a problem starting this game."
          /\ thrown'
          /\ navs' = << >>
          /\ availableCommands' = << >>
          /\ UNCHANGED <<locations, currentLocation, visits>>]_vars

\* A new Game was started with a story without a locations list.
C21_Witness ==
    /\ lastOp = [op |-> "newGame", arg |-> NameAbsent]
    /\ thrown
    /\ ErrorShown(out)
    /\ locations = {}
    /\ currentLocation = Undefined
    /\ availableCommands = << >>

\* The codes of a starting inventory the catalog of the story resolves.
Resolves(story, code) == \E i \in 1..Len(story.items) : story.items[i] = code

\* newGame of the story displayed one error for each code of the starting
\* inventory that does not resolve, put every code that resolves into the
\* player's inventory and went on to the start location.
SkippedUnresolved(story) ==
    /\ ~thrown'
    /\ Len(Errors(out')) = Cardinality({i \in 1..Len(story.inventory) :
                                            ~Resolves(story, story.inventory[i])})
    /\ \A i \in 1..Len(story.inventory) :
          IF Resolves(story, story.inventory[i])
          THEN GetItem(inventory', story.inventory[i]) = story.inventory[i]
          ELSE /\ ~HasKey(inventory', story.inventory[i])
               /\ \E k \in 1..Len(out') :
                     /\ out'[k].kind = "error"
                     /\ out'[k].args = <<story.inventory[i]>>
    /\ currentLocation' = story.startLocation
    /\ navs' # << >>
    /\ availableCommands' # << >>

\* C22: newGame displays one error for a starting-inventory code that
\* the item catalog does not resolve and skips it, without aborting: the codes
\* that resolve are in the player's inventory afterwards and the player is
\* taken to the start location.
C22_UnresolvedCode ==
    [][\A name \in {NameUnknown, NameInherited} :
          (lastOp'.op = "newGame" /\ lastOp'.arg = name) =>
              SkippedUnresolved(StoryNamed(name))]_vars

\* C22 for a code that is no name inherited from Object.prototype.
C22_UnknownCode ==
    [][(lastOp'.op = "newGame" /\ lastOp'.arg = NameUnknown) =>
          SkippedUnresolved(StoryNamed(NameUnknown))]_vars

\* The keyword occurs in the topic, letters compared without regard to case.
Occurs(topic, keyword) ==
    \E p \in 0..(Len(topic) - Len(keyword)) :
        \A j \in 1..Len(keyword) : UpperChar(topic[p + j]) = UpperChar(keyword[j])

\* The topic is unset, empty or made of spaces.
Blank(topic) == topic = Undefined \/ \A i \in 1..Len(topic) : topic[i] = " "

\* C23: speakingAbout answers true exactly when the NPC's currentTopic is
\* set and not blank and at least one of the keywords occurs in it, compared
\* without regard to case; a single keyword counts as a list of one.
C23_SpeakingAbout ==
    lastOp.op = "speakingAbout" =>
        (out[1].tag = "true"
            <=> /\ ~Blank(currentTopic[lastOp.arg])
                /\ \E i \in 1..Len(out[1].args) :
                      Occurs(currentTopic[lastOp.arg], out[1].args[i]))

\* Bob, told about 'the Party', is speaking about one of x and party.
C23_Witness ==
    /\ lastOp = [op |-> "speakingAbout", arg |-> NpcBob]
    /\ currentTopic[NpcBob] = TopicParty
    /\ out = <<[kind |-> "result", tag |-> "true",
                args |-> << <<"x">>, <<"p","a","r","t","y">> >>]>>

\* The operation is a method of the NPC that takes a topic.
TopicOps == {"onAsk", "onTell", "onTalk"}

\* The step is parseCommand of a line that reaches Bob with the topic, the
\* player being where Bob is.
ToldBob(line, topic) ==
    /\ lastOp' = [op |-> "parseCommand", arg |-> line]
    /\ availableCommands # << >>
    /\ currentLocation = LocA
    /\ currentTopic'[NpcBob] = topic

\* C24 as claimed: onAsk(t) and onTell(t) set the NPC's currentTopic to t,
\* and talk, give, use and examine leave it as it was.
C24_TopicOfAskTell ==
    [][/\ lastOp'.op \in {"onAsk", "onTell"} => currentTopic'[NpcBob] = lastOp'.arg
       /\ lastOp'.op \in {"onTalk", "onGive", "onUse"} => UNCHANGED currentTopic
       /\ (lastOp'.op = "parseCommand"
           /\ lastOp'.arg \in {LTalkToBob, LTalkToBobAboutParty, LGiveKeyToBob,
                               LUseKeyOnBob, LExamineBob})
          => UNCHANGED currentTopic]_vars

\* C24: onAsk(t), onTell(t) and onTalk(t) set the NPC's currentTopic to
\* exactly t, also when t is absent; the commands ask, tell and talk to pass
\* on the topic typed after 'about'; no other operation changes it.
C24_TopicOfAskTellTalk ==
    [][/\ lastOp'.op \in TopicOps => currentTopic'[NpcBob] = lastOp'.arg
       /\ lastOp'.op \notin TopicOps \cup {"parseCommand"} => UNCHANGED currentTopic
       /\ lastOp'.op = "parseCommand" =>
             \/ UNCHANGED currentTopic
             \/ ToldBob(LAskBobAboutKey, ItemKey)
             \/ ToldBob(LTellBobAboutKey, ItemKey)
             \/ ToldBob(LTalkToBobAboutParty, TopicParty)
             \/ ToldBob(LTalkToBob, Undefined)
       /\ (lastOp'.op = "parseCommand"
           /\ lastOp'.arg \in {LGiveKeyToBob, LUseKeyOnBob, LExamineBob})
          => UNCHANGED currentTopic]_vars

\* Bob was told about the key and then talked to about 'the Party'.
C24_Witness ==
    /\ lastOp = [op |-> "onTalk", arg |-> TopicParty]
    /\ currentTopic[NpcBob] = TopicParty
    /\ reacts = <<[hook |-> "onTalk", on |-> NpcBob, arg |-> TopicParty]>>

\* The first whitespace-delimited token of a line.
FirstToken(line) ==
    LET t == Trim(line)
        n == IF \E i \in 1..Len(t) : t[i] = " "
             THEN (CHOOSE i \in 1..Len(t) : t[i] = " " /\ \A j \in 1..(i - 1) : t[j] # " ") - 1
             ELSE Len(t)
    IN  SubSeq(t, 1, n)

\* The plain-callback commands of Game.getCommands.
PlainCallbacks == {"help", "inventory", "look"}

\* C25: help, inventory and look act on a line exactly when its first
\* whitespace-delimited token is the command's name, compared without regard
\* to case; on any other line they do nothing.
C25_FirstToken ==
    \A i \in 1..Len(execs) :
        (lastOp.op = "parseCommand" /\ execs[i].cmd.cmd \in PlainCallbacks) =>
            (Acted(execs[i])
                <=> ToUpperCase(FirstToken(lastOp.arg))
                        = ToUpperCase(ShortName(execs[i].cmd)))

\* C25 as the callbacks test the line: help acts when the line starts with
\* its name, inventory and look when the whole trimmed line is their name.
C25_WholeLine ==
    \A i \in 1..Len(execs) :
        (lastOp.op = "parseCommand" /\ execs[i].cmd.cmd \in PlainCallbacks) =>
            (Acted(execs[i])
                <=> IF execs[i].cmd.cmd = "help"
                    THEN StartsWith(ToUpperCase(lastOp.arg), ToUpperCase(ShortName(execs[i].cmd)))
                    ELSE ToUpperCase(Trim(lastOp.arg)) = ToUpperCase(ShortName(execs[i].cmd)))

\* Position i of the text lies inside a quoted span: an odd number of
\* quote characters precedes it.
Quoted(text, i) == Cardinality({j \in 1..(i - 1) : text[j] = "\""}) % 2 = 1

\* The positions of the spaces outside quoted spans, and the k-th of them
\* (0 in front of the text, Len + 1 behind it).
Splits(text) == {i \in 1..Len(text) : text[i] = " " /\ ~Quoted(text, i)}
SplitAt(text, k) ==
    IF k = 0 THEN 0
    ELSE IF k > Cardinality(Splits(text)) THEN Len(text) + 1
    ELSE CHOOSE i \in Splits(text) : Cardinality({j \in Splits(text) : j <= i}) = k

\* The characters of the text strictly between positions a and b, the quote
\* characters left out.
Between(text, a, b) ==
    LET idx == {i \in (a + 1)..(b - 1) : text[i] # "\""}
    IN  [k \in 1..Cardinality(idx) |->
            text[CHOOSE i \in idx : Cardinality({j \in idx : j <= i}) = k]]

\* The tokens the claim describes: the text between two consecutive spaces
\* that lie outside quoted spans, and the text behind the last of them if it
\* is not empty.
Tokens(text) ==
    LET m    == Cardinality(Splits(text))
        last == Between(text, SplitAt(text, m), Len(text) + 1)
        cut  == [k \in 1..m |-> Between(text, SplitAt(text, k - 1), SplitAt(text, k))]
    IN  IF last = << >> THEN cut ELSE Append(cut, last)

\* C26: Console.parse splits the line at the spaces outside double-quoted
\* spans, keeps a quoted span with its spaces in one token and removes the
\* quote characters: no token holds a quote character, a space of a token was
\* inside a quoted span, and go "south door" yields go and south door.
C26_Parse ==
    lastOp.op = "parse" =>
        /\ out[2].args = Tokens(lastOp.arg)
        /\ \A k \in 1..Len(out[2].args) : \A i \in 1..Len(out[2].args[k]) :
              out[2].args[k][i] # "\""
        /\ Cardinality({i \in 1..Len(lastOp.arg) : lastOp.arg[i] = " " /\ Quoted(lastOp.arg, i)})
               = Cardinality({<<k, i>> \in (1..Len(out[2].args)) \X (1..Len(lastOp.arg)) :
                                  i <= Len(out[2].args[k]) /\ out[2].args[k][i] = " "})
        /\ lastOp.arg = LGoQuoted =>
              out[2].args = << <<"g","o">>, <<"s","o","u","t","h"," ","d","o","o","r">> >>

\* go "south door" was tokenized into go and south door.
C26_Witness ==
    /\ lastOp = [op |-> "parse", arg |-> LGoQuoted]
    /\ out[2] = [kind |-> "result", tag |-> "parse",
                 args |-> << <<"g","o">>, <<"s","o","u","t","h"," ","d","o","o","r">> >>]

\* The positions behind the command name at which the preposition stands as
\* a separate word of the line.
PrepWords(name, prep, line) ==
    {p \in (Len(name) + 2)..Len(line) :
        /\ LiteralAt(line, p, prep)
        /\ line[p - 1] = " "
        /\ (p + Len(prep) - 1 = Len(line) \/ line[p + Len(prep)] = " ")}

\* Of these, the ones with text in front and a space behind: a space and a
\* first target before the space that precedes the word, a space after it.
SplitWords(name, prep, line) ==
    {p \in PrepWords(name, prep, line) :
        /\ p >= Len(name) + 3
        /\ p + Len(prep) <= Len(line)}

Last(ps) == CHOOSE p \in ps : \A q \in ps : q <= p

\* The callback of command c was invoked once, with the line split at the
\* preposition word at p.
SplitAtWord(e, line, p) ==
    e.called = <<[cmd     |-> e.cmd,
                  target1 |-> SubSeq(line, Len(ShortName(e.cmd))
                                            + SpaceRun(line, Len(ShortName(e.cmd)) + 1) + 1,
                                     p - 2),
                  target2 |-> SubSeq(line,
                                     p + Len(Preposition(e.cmd))
                                       + SpaceRun(line, p + Len(Preposition(e.cmd))),
                                     Len(line))]>>

\* The execute calls of the last parseCommand on commands built with a
\* preposition whose name the line starts with, the line holding the
\* preposition as a separate word more than once.
Repeated(e) ==
    /\ lastOp.op = "parseCommand"
    /\ Preposition(e.cmd) # Undefined
    /\ StartsWith(ToUpperCase(lastOp.arg), ToUpperCase(ShortName(e.cmd)))
    /\ Cardinality(PrepWords(ShortName(e.cmd), Preposition(e.cmd), lastOp.arg)) > 1

OnlyListChanges == \A k \in 1..Len(did') : did'[k].act \in {"none", "add"}

\* C28: when callbacks change the list during an iteration, every callback
\* registered at its start and every callback added on the way is invoked
\* exactly once in it, in the order of the list: none is skipped after a
\* removal and none is invoked twice; the list is then what was registered
\* and added without the callbacks that returned false.
C28_ListChanges ==
    [][(IsIteration /\ OnlyListChanges) =>
          /\ ticks' = timers \o AddedDuring(did')
          /\ Len(did') = Len(ticks')
          /\ timers' = KeepWhere(ticks', did')]_vars

\* A fired timeout invoked the only registered callback, which added a
\* second one and returned false, and then the added one once; the added
\* one alone is registered now.
C28_Witness ==
    /\ lastOp.op = "timeout"
    /\ did = <<[act |-> "add", ret |-> "false"], [act |-> "none", ret |-> "void"]>>
    /\ ticks = <<TickB, AddedFn>>
    /\ timers = <<AddedFn>>

\* A fired timeout removed the first callback for returning false and
\* still invoked the one that followed it.
C28_WitnessRemoval ==
    /\ lastOp.op = "timeout"
    /\ did = <<[act |-> "none", ret |-> "false"], [act |-> "none", ret |-> "void"]>>
    /\ ticks = <<TickC, TickB>>
    /\ timers = <<TickB>>

\* removeItem(id) was called on the inventory: the key is there, its value
\* is absent.
Gone(inv, id) == HasKey(inv, id) /\ GetItem(inv, id) = Undefined

\* The operation displayed a message with this wording that names the entity.
Lists(log, tag, id) ==
    \E i \in 1..Len(log) :
        log[i].tag = tag /\ \E k \in 1..Len(log[i].args) : log[i].args[k] = id

\* The operation displayed a message with this wording.
Shows(log, tag) == \E i \in 1..Len(log) : log[i].tag = tag

\* The inventories of the game: the player's and the ones of the locations.
Shelves == {inventory} \cup {locItems[l] : l \in LocIds}

\* The names a player may type for an entity.
TypedNames(id) == {id, Title(id), ToUpperCase(id), <<" ">> \o id \o <<" ">>}

\* C29: an entity removed from an inventory is skipped by everything that
\* walks the inventory: findItemByName never returns it, the location
\* display and the inventory command never list it, and examine, take, use
\* and drop do not find it there.
C29_RemovedSkipped ==
    [][/\ \A id \in ItemIds : \A inv \in Shelves :
             Gone(inv, id) =>
                 \A name \in TypedNames(id) : FindItemByName(inv, name).item # id
       /\ \A id \in ItemIds :
             (Typed(LLook, "look") /\ currentLocation \in LocIds
                  /\ Gone(locItems[currentLocation], id))
                 => ~Lists(out', "Items", id)
       /\ \A id \in ItemIds :
             (Typed(LInventory, "inventory") /\ Gone(inventory, id))
                 => ~Lists(out', "Inventory", id)
       /\ (Typed(LTakeKey, "take") /\ currentLocation \in LocIds
               /\ Gone(locItems[currentLocation], ItemKey))
             => (Shows(out', "Unknown item") /\ UNCHANGED <<inventory, locItems>>)
       /\ (Typed(LDropKey, "drop") /\ Gone(inventory, ItemKey))
             => (Shows(out', "Can't find") /\ UNCHANGED <<inventory, locItems>>)
       /\ (Typed(LExamineKey, "examine") /\ currentLocation \in LocIds
               /\ Gone(inventory, ItemKey) /\ Gone(locItems[currentLocation], ItemKey))
             => (Shows(out', "Unknown item") /\ ~Shows(out', "description"))
       /\ (Typed(LUseKey, "use") /\ currentLocation \in LocIds
               /\ Gone(inventory, ItemKey) /\ Gone(locItems[currentLocation], ItemKey))
             => (Shows(out', "Can't find") /\ reacts' = << >>)]_vars

\* The Key was taken in LocA and dropped in LocB: back in LocA, 'look'
\* lists the Box and not the Key, whose key is still in the inventory of
\* LocA as in the player's.
C29_Witness ==
    /\ lastOp = [op |-> "parseCommand", arg |-> LLook]
    /\ currentLocation = LocA
    /\ Gone(locItems[LocA], ItemKey)
    /\ Gone(inventory, ItemKey)
    /\ Lists(out, "Items", ItemBox)
    /\ ~Lists(out, "Items", ItemKey)

\* 'examine key' there displayed the unknown-item error.
C29_WitnessExamine ==
    /\ lastOp = [op |-> "parseCommand", arg |-> LExamineKey]
    /\ currentLocation = LocA
    /\ Gone(locItems[LocA], ItemKey)
    /\ Gone(inventory, ItemKey)
    /\ Shows(out, "Unknown item")

\* The first present entity of an inventory whose title, trimmed or as it
\* is, equals the trimmed name when case is ignored: Undefined for none.
RECURSIVE FirstMatch(_, _, _)
FirstMatch(inv, name, trimmed) ==
    IF inv = << >> THEN Undefined
    ELSE IF /\ Head(inv).present
            /\ ToUpperCase(IF trimmed THEN Trim(Title(Head(inv).id)) ELSE Title(Head(inv).id))
                   = ToUpperCase(Trim(name))
    THEN Head(inv).id
    ELSE FirstMatch(Tail(inv), name, trimmed)

\* findItemByName was the last operation and returned this.
Found(item) ==
    out = <<[kind |-> "result", tag |-> "findItemByName", args |-> <<item>>]>>

\* C30: findItemByName returns the first present entity, in insertion
\* order, whose trimmed title equals the trimmed name when case is ignored,
\* and null when there is none.
C30_FirstByTrimmedTitle ==
    lastOp.op = "findItemByName" => Found(FirstMatch(inventory, lastOp.arg, TRUE))

\* C30 with the title as it is: findItemByName returns the first present
\* entity whose title equals the trimmed name when case is ignored, null
\* when there is none, and so never an entity whose title differs from the
\* name by more than case and surrounding whitespace.
C30_FirstByTitle ==
    lastOp.op = "findItemByName" =>
        /\ Found(FirstMatch(inventory, lastOp.arg, FALSE))
        /\ \A id \in EntityIds :
              Found(id) => ToUpperCase(Trim(Title(id))) = ToUpperCase(Trim(lastOp.arg))

\* With the Copy put in before the Key, 'key' returned the Copy.
C30_FirstOfTwo ==
    /\ lastOp = [op |-> "findItemByName", arg |-> ItemKey]
    /\ \E i, j \in 1..Len(inventory) :
          /\ i < j
          /\ inventory[i] = [id |-> ItemCopy, present |-> TRUE]
          /\ inventory[j] = [id |-> ItemKey, present |-> TRUE]
    /\ Found(ItemCopy)

\* 'use key on bob' is typed where the Key is at hand (held, or in the
\* current location) and Bob is in the current location.
UseKeyOnBobAtHand ==
    /\ Typed(LUseKeyOnBob, "use")
    /\ currentLocation \in LocIds
    /\ (GetItem(inventory, ItemKey) = ItemKey
           \/ GetItem(locItems[currentLocation], ItemKey) = ItemKey)
    /\ GetItem(locNpcs[currentLocation], NpcBob) = NpcBob

\* C31: 'use X on T' with X at hand and T the title of an NPC of the
\* current location invokes X.onUse with that NPC as target, which for an
\* item without a use-callback is the NPC's use-reaction, and displays no
\* error.
C31_UseOnNpc ==
    [][UseKeyOnBobAtHand =>
          /\ ~ErrorShown(out')
          /\ \E i \in 1..Len(reacts') : reacts'[i].hook = "onUse" /\ reacts'[i].on = NpcBob]_vars

\* What the command does there: the NPCs are searched for the item's name,
\* Bob is not found, the not-found error for the target is displayed and
\* no reaction is invoked.
C31_NpcSearchedByItemName ==
    [][UseKeyOnBobAtHand =>
          /\ \E i \in 1..Len(out') :
                out'[i].kind = "error" /\ out'[i].tag = "Can't find" /\ out'[i].args = <<NpcBob>>
          /\ reacts' = << >>
          /\ UNCHANGED <<inventory, locItems, locNpcs, currentTopic>>]_vars

\* item.onUse(target) was the step, and nothing but the logs changed in it.
UsedItem(item, target) ==
    /\ lastOp' = [op |-> "Item.onUse", arg |-> item]
    /\ out'[1] = [kind |-> "call", tag |-> "onUse", args |-> <<item, target>>]
OnlyLogs ==
    UNCHANGED <<locations, currentLocation, visits, locItems, locNpcs, availableItems,
                inventory, npcs, availableCommands, storyCommands, bound, currentTopic,
                timers, timerID, pending>>

\* C32: Item.onUse(target) invokes exactly the item's use-callback, with
\* the target, when the item has one; exactly the use-reaction of the target
\* when the item has none and the target is an NPC; and nothing otherwise,
\* no state changing then.
C32_ItemOnUse ==
    [][\A item \in ItemIds, target \in UseTargets :
          UsedItem(item, target) =>
              IF HasUseCallback(item)
              THEN reacts' = <<[hook |-> "onUseCallback", on |-> item, arg |-> target]>>
              ELSE IF target \in NpcIds
              THEN reacts' = <<[hook |-> "onUse", on |-> target, arg |-> Undefined]>>
              ELSE reacts' = << >> /\ Len(out') = 1 /\ OnlyLogs /\ ~thrown']_vars

\* The Lamp, which has a use-callback, was used on Bob: the callback was
\* invoked with Bob and Bob did not react.
C32_Witness ==
    /\ lastOp = [op |-> "Item.onUse", arg |-> ItemLamp]
    /\ out[1].args = <<ItemLamp, NpcBob>>
    /\ reacts = <<[hook |-> "onUseCallback", on |-> ItemLamp, arg |-> NpcBob]>>

\* The Key, which has none, was used on Bob: Bob reacted.
C32_WitnessNpc ==
    /\ lastOp = [op |-> "Item.onUse", arg |-> ItemKey]
    /\ out[1].args = <<ItemKey, NpcBob>>
    /\ reacts = <<[hook |-> "onUse", on |-> NpcBob, arg |-> Undefined]>>

\* C33: 'drop' with the title of an item the player holds moves the item
\* from the player's inventory to the items of the current location, where
\* a following 'take' of the same title finds it and returns it to the
\* player's inventory; 'drop' of a name the player does not hold displays an
\* error and changes neither inventory.
C33_DropThenTake ==
    [][/\ (Typed(LDropKey, "drop") /\ currentLocation \in LocIds) =>
             IF GetItem(inventory, ItemKey) = ItemKey
             THEN /\ GetItem(inventory', ItemKey) = Undefined
                  /\ GetItem(locItems'[currentLocation], ItemKey) = ItemKey
                  /\ FindItemByName(locItems'[currentLocation], ItemKey).item = ItemKey
                  /\ \A l \in LocIds \ {currentLocation} : locItems'[l] = locItems[l]
                  /\ \A id \in ItemIds \ {ItemKey} :
                        GetItem(inventory', id) = GetItem(inventory, id)
                  /\ currentLocation' = currentLocation
                  /\ ~ErrorShown(out')
             ELSE ErrorShown(out') /\ UNCHANGED <<inventory, locItems>>
       /\ (Typed(LTakeKey, "take") /\ currentLocation \in LocIds
               /\ GetItem(locItems[currentLocation], ItemKey) = ItemKey) =>
             /\ GetItem(inventory', ItemKey) = ItemKey
             /\ GetItem(locItems'[currentLocation], ItemKey) = Undefined
             /\ ~ErrorShown(out')]_vars

\* The Key was carried to LocB, dropped there and taken again: the player
\* holds it, and LocB keeps its key without a value.
C33_Witness ==
    /\ lastOp = [op |-> "parseCommand", arg |-> LTakeKey]
    /\ currentLocation = LocB
    /\ Gone(locItems[LocB], ItemKey)
    /\ GetItem(inventory, ItemKey) = ItemKey
    /\ ~ErrorShown(out)

\* 'drop key' without the Key in hand displayed the error.
C33_WitnessRefused ==
    /\ lastOp = [op |-> "parseCommand", arg |-> LDropKey]
    /\ GetItem(inventory, ItemKey) = Undefined
    /\ GetItem(locItems[LocA], ItemKey) = ItemKey
    /\ Shows(out, "Can't find")

\* C34: no operation invokes the onExit hook of an exit, also not one that
\* traverses an exit built with a callback.
C34_OnExitNeverFired ==
    \A i \in 1..Len(reacts) : reacts[i].hook # "onExitCallback"

\* 'Enter North' took the player through the exit of LocB, which has a
\* callback, to LocA, and no reaction was invoked.
C34_Witness ==
    /\ lastOp = [op |-> "parseCommand", arg |-> LEnterNorth]
    /\ navs = <<LocA>>
    /\ currentLocation = LocA
    /\ HasExitCallback(LocB, LocA)
    /\ reacts = << >>

\* C35: start() with callbacks registered and no iteration queued, as it
\* is after the loop has drained and add(fn) was called, invokes every
\* registered callback and queues the next iteration (the callbacks leave
\* the scheduler alone).
C35_RestartAfterDrain ==
    [][(lastOp'.op = "start" /\ pending = {} /\ timers # << >> /\ NoReentry) =>
          /\ ticks' = timers
          /\ pending' # {}]_vars

\* What the drained loop leaves: the list is empty, nothing is queued, and
\* timerID still names the last timeout, which has fired.
C35_Drained ==
    /\ lastOp.op = "timeout"
    /\ timers = << >>
    /\ pending = {}
    /\ timerID # 0

\* The k-th callback invoked in the step navigated to the registered
\* location l, and no other callback of the step did more than return.
Navigated(k, l) ==
    /\ k \in 1..Len(did')
    /\ did'[k].act \in GoToActs
    /\ GoToTarget(did'[k].act) = l
    /\ l \in locations
    /\ \A j \in 1..Len(did') : j # k => did'[j].act = "none"

\* The list goTo leaves for a location.
TickList(l) == IF OnTickCallback(l) # "none" THEN <<OnTickCallback(l)>> ELSE << >>

\* C36: when a tick callback navigates during an iteration, the list holds
\* exactly the tick callback of the new location after the iteration,
\* whatever the navigating callback returned, and no callback of the old
\* list is invoked after the navigation.
C36_NavigatingTick ==
    [][\A k \in 1..MaxCalls : \A l \in LocIds :
          (IsIteration /\ Navigated(k, l)) =>
              /\ timers' = TickList(l)
              /\ \A j \in (k + 1)..Len(ticks') : ticks'[j] = OnTickCallback(l)]_vars

\* C36 for a navigating callback that does not return false.
C36_NavigatingTickStays ==
    [][\A k \in 1..MaxCalls : \A l \in LocIds :
          (IsIteration /\ Navigated(k, l) /\ did'[k].ret # "false") =>
              /\ timers' = TickList(l)
              /\ Len(ticks') = k]_vars

\* What happens when it returns false: the callback of the new location is
\* removed in its place.
C36_NewCallbackRemoved ==
    [][\A k \in 1..MaxCalls : \A l \in LocIds :
          (IsIteration /\ Navigated(k, l) /\ did'[k].ret = "false" /\ k = 1) =>
              timers' = << >>]_vars

\* The locations whose item set holds the item.
LocationsOf(id) == {l \in LocIds : GetItem(locItems[l], id) = id}

\* Every item is in one place at most: with the player or in one location.
OnePlaceEach ==
    \A id \in ItemIds :
        /\ Cardinality(LocationsOf(id)) <= 1
        /\ GetItem(inventory, id) = id => LocationsOf(id) = {}

\* C37: the story placing each item once, in every state reached through
\* the built-in commands no item is with the player and in a location at
\* the same time, and none is in two locations.
C37_OnePlace ==
    [][lastOp'.op = "parseCommand" => (OnePlaceEach => OnePlaceEach')]_vars

\* C37 for the lines other than the debug command supertake.
C37_OnePlaceButSuperTake ==
    [][(lastOp'.op = "parseCommand" /\ lastOp'.arg # LSuperTakeKey) =>
          (OnePlaceEach => OnePlaceEach')]_vars

\* 'supertake key' put the Key into the player's inventory and left it in
\* LocA.
C37_Duplicated ==
    /\ lastOp = [op |-> "parseCommand", arg |-> LSuperTakeKey]
    /\ GetItem(inventory, ItemKey) = ItemKey
    /\ GetItem(locItems[LocA], ItemKey) = ItemKey

\* The commands execute was called on, in the order of the calls.
Offered(log) == [i \in 1..Len(log) |-> log[i].cmd]

\* C38: a line during whose dispatch a command navigates is offered to
\* every command of the list that was current when parseCommand began,
\* once each and in the order of that list, the commands behind the
\* navigating one included, and to no command the navigation built.
C38_OldListDispatched ==
    [][(lastOp'.op = "parseCommand" /\ navs' # << >> /\ ~thrown') =>
          /\ Offered(execs') = availableCommands
          /\ availableCommands' # availableCommands
          /\ \A c \in Range(availableCommands') \ Range(availableCommands) :
                c \notin Range(Offered(execs'))]_vars

\* 'go south' took the player to LocB: the go command was the second of
\* the list, the story's go command behind it was offered the line too, and
\* the list is a new one.
C38_Witness ==
    /\ lastOp = [op |-> "parseCommand", arg |-> LGoSouth]
    /\ navs = <<LocB>>
    /\ Offered(execs) = dispatched
    /\ execs[2].cmd.cmd = "go"
    /\ execs[Len(execs)].cmd = StoryGo
    /\ execs[Len(execs)].called # << >>
    /\ availableCommands # dispatched

\* No short name of the built-in list starts another one of the list.
NoNameStartsAnother ==
    \A i, j \in 1..Len(BuiltinCmds) :
        i # j => ~StartsWith(ToUpperCase(ShortName([cmd |-> BuiltinCmds[j], gen |-> 0])),
                             ToUpperCase(ShortName([cmd |-> BuiltinCmds[i], gen |-> 0])))

\* C39: with the built-in commands alone in the list (no story command, no
\* location command), at most one command acts on a line: one command at
\* most displays, calls back, changes the game or throws, and the player
\* arrives at most once; no built-in short name starts another one.
C39_OneCommandReacts ==
    (lastOp.op = "parseCommand" /\ storyCommands = << >>) =>
        /\ \A i, j \in 1..Len(execs) : (Acted(execs[i]) /\ Acted(execs[j])) => i = j
        /\ Len(navs) <= 1
        /\ NoNameStartsAnother

\* 'supergo b' was offered to the fifteen built-ins: supergo took the
\* player to LocB and go, whose name ends supergo's, did nothing.
C39_Witness ==
    /\ lastOp = [op |-> "parseCommand", arg |-> LSuperGoB]
    /\ storyCommands = << >>
    /\ Len(execs) = Len(BuiltinCmds)
    /\ navs = <<LocB>>
    /\ \E i \in 1..Len(execs) : execs[i].cmd.cmd = "supergo" /\ Acted(execs[i])
    /\ \E i \in 1..Len(execs) : execs[i].cmd.cmd = "go" /\ ~Acted(execs[i])

\* The locations of the story named name.
LocationsOfStory(name) == Range(StoryNamed(name).locations)

\* C40: when newGame(data) returns, the registered locations are exactly
\* the locations of data (so that no location of an earlier story is still
\* registered), the current location is data's start location with one
\* visit more than before, and the command list is not empty.
C40_NewGameRegisters ==
    [][(lastOp'.op = "newGame" /\ ~thrown') =>
          /\ locations' = LocationsOfStory(lastOp'.arg)
          /\ currentLocation' = StoryNamed(lastOp'.arg).startLocation
          /\ visits'[currentLocation'] = visits[currentLocation'] + 1
          /\ availableCommands' # << >>]_vars

\* What holds of every newGame that returns: the locations of data are
\* registered next to those that were, the rest as stated.
C40_NewGameAddsLocations ==
    [][(lastOp'.op = "newGame" /\ ~thrown') =>
          /\ locations' = locations \cup LocationsOfStory(lastOp'.arg)
          /\ currentLocation' = StoryNamed(lastOp'.arg).startLocation
          /\ visits'[currentLocation'] = visits[currentLocation'] + 1
          /\ availableCommands' # << >>]_vars

\* The second story is the current one and goTo has taken the player to a
\* location of the first.
C40_EarlierLocationReached ==
    /\ lastOp = [op |-> "goTo", arg |-> LocA]
    /\ ~thrown
    /\ storyCommands = StoryNamed(NameSequel).commands
    /\ currentLocation = LocA
    /\ LocA \notin LocationsOfStory(NameSequel)
    /\ visits[LocA] = 2
    /\ visits[LocC] = 1
====
